---- MODULE Spec2Model ----
(***************************************************************************)
(* A model of the M3U8 playlist parser of openwurl/m3u8, in its two        *)
(* variants: the baseline parser src/m3u8/_m3u8_parser.c and the           *)
(* optimized parser src/unnamed/part_000.                                  *)
(*                                                                         *)
(* Text is a sequence of symbols.  The symbols "=", ",", ":", "/", the     *)
(* double quote, the single quote and the blank " " are the characters     *)
(* the parser looks for; a digit is one character; any other symbol (for   *)
(* instance "DURATION" or "a") stands for a run of ordinary characters     *)
(* that contains none of the former, so every scanning loop of the code    *)
(* steps over it exactly as it steps over each of its characters.          *)
(*                                                                         *)
(* Python objects are tagged values (PyNone, PyBool, PyStr, ...); a Python *)
(* dict is a function from its keys (strings) to such values, so a key     *)
(* that is absent from the dict is absent from the function's domain.      *)
(***************************************************************************)
EXTENDS Integers, Sequences, FiniteSets, TLC

\* ---- bounds of the model ----
MaxLines == 4
MaxHookLines == 3
MaxHookEdits == 1
MaxContent == 5
MaxDateLines == 5
MaxCueLines == 5
MaxCallLines == 2
MaxBothLines == 3
MaxCarryLines == 5
MaxScalarLines == 2
MaxFragment == 5

\* ---- Python values ----
PyNone == [none |-> TRUE]
PyBool(b) == [bool |-> b]
Py_True == PyBool(TRUE)
Py_False == PyBool(FALSE)
PyStr(s) == [str |-> s]
PyFloat(n) == [flt |-> n]
PyLong(n) == [int |-> n]
PyDateTime(t) == [dt |-> t]
PyList(s) == [list |-> s]
PyDict(d) == [dict |-> d]

PyDict_New == <<>>
Has(d, k) == k \in DOMAIN d
PyDict_SetItem(d, k, v) == [y \in DOMAIN d \cup {k} |-> IF y = k THEN v ELSE d[y]]
del_item_string_ignore_keyerror(d, k) == [y \in DOMAIN d \ {k} |-> d[y]]

\* ---- characters ----
DQ == "\""
SQ == "'"
isspace(c) == c = " "
IsDigit(c) == c \in {"0", "1", "2", "3", "4", "5", "6", "7", "8", "9"}
DigitVal(c) ==
  CASE c = "0" -> 0 [] c = "1" -> 1 [] c = "2" -> 2 [] c = "3" -> 3 [] c = "4" -> 4
    [] c = "5" -> 5 [] c = "6" -> 6 [] c = "7" -> 7 [] c = "8" -> 8 [] c = "9" -> 9

\* tolower, with the '-' to '_' replacement of the attribute normalizers
LowerTable ==
  [METHOD |-> "method", URI |-> "uri", IV |-> "iv", DURATION |-> "duration",
   BANDWIDTH |-> "bandwidth", CODECS |-> "codecs", ID |-> "id",
   CUE |-> "cue", SCTE35 |-> "scte35", ELAPSEDTIME |-> "elapsedtime",
   A |-> "a", N |-> "n", X |-> "x", VOD |-> "vod", YES |-> "yes",
   PROGRAM |-> "program", NAME |-> "name", VALUE |-> "value", LAYOUT |-> "layout",
   LAST |-> "last", MSN |-> "msn", BYTERANGE |-> "byterange"]
tolower(c) == IF c \in DOMAIN LowerTable THEN LowerTable[c] ELSE c
NormChar(c) == IF c = "-" THEN "_" ELSE tolower(c)

RECURSIVE Join(_)
Join(s) == IF s = <<>> THEN "" ELSE Head(s) \o Join(Tail(s))

RECURSIVE SkipSpaces(_, _)
SkipSpaces(s, p) ==
  IF p <= Len(s) /\ isspace(s[p]) THEN SkipSpaces(s, p + 1) ELSE p

RECURSIVE SkipSpacesAndCommas(_, _)
SkipSpacesAndCommas(s, p) ==
  IF p <= Len(s) /\ (isspace(s[p]) \/ s[p] = ",")
  THEN SkipSpacesAndCommas(s, p + 1) ELSE p

\* first position at or after p holding one of stops, or Len(s)+1
RECURSIVE ScanTo(_, _, _)
ScanTo(s, p, stops) ==
  IF p <= Len(s) /\ s[p] \notin stops THEN ScanTo(s, p + 1, stops) ELSE p

RECURSIVE RStrip(_)
RStrip(s) ==
  IF s # <<>> /\ isspace(s[Len(s)]) THEN RStrip(SubSeq(s, 1, Len(s) - 1)) ELSE s

RECURSIVE LStrip(_)
LStrip(s) == IF s # <<>> /\ isspace(Head(s)) THEN LStrip(Tail(s)) ELSE s

strip(s) == RStrip(LStrip(s))

\* strchr: position of the first c in s, 0 when there is none
strchr(s, c) == LET p == ScanTo(s, 1, {c}) IN IF p <= Len(s) THEN p ELSE 0

\* strlen of a text: a symbol that stands for several bytes counts its bytes
SymbolLen ==
  [method |-> 6, uri |-> 3, iv |-> 2, duration |-> 8, bandwidth |-> 9, codecs |-> 6,
   id |-> 2, cue |-> 3, scte35 |-> 6, elapsedtime |-> 11, vod |-> 3, yes |-> 3,
   program |-> 7, name |-> 4, value |-> 5, layout |-> 6, last |-> 4, msn |-> 3,
   T0 |-> 20, T100 |-> 20, payload1024 |-> 1024, byterange |-> 9]
RECURSIVE strlen(_)
strlen(s) ==
  IF s = <<>> THEN 0
  ELSE (IF tolower(Head(s)) \in DOMAIN SymbolLen THEN SymbolLen[tolower(Head(s))] ELSE 1)
       + strlen(Tail(s))

\* ---- number and date conversions of the Python runtime ----
RECURSIVE DigitsValue(_, _)
DigitsValue(s, acc) ==
  IF s = <<>> THEN acc ELSE DigitsValue(Tail(s), 10 * acc + DigitVal(Head(s)))

AllDigits(s) == s # <<>> /\ \A i \in 1..Len(s) : IsDigit(s[i])

\* PyOS_string_to_double(s, NULL, NULL): no surrounding blanks accepted
PyOS_string_to_double(s) ==
  IF AllDigits(s) THEN [ok |-> TRUE, v |-> DigitsValue(s, 0)]
  ELSE [ok |-> FALSE, v |-> 0]

\* PyLong_FromString(s, NULL, 10): surrounding blanks accepted
PyLong_FromString(s) ==
  IF AllDigits(strip(s)) THEN [ok |-> TRUE, v |-> DigitsValue(strip(s), 0)]
  ELSE [ok |-> FALSE, v |-> 0]

\* datetime.fromisoformat: the timestamps of the model, in seconds
IsoTable == [T0 |-> 0, T100 |-> 100]
fromisoformat(s) ==
  IF Len(s) = 1 /\ s[1] \in DOMAIN IsoTable
  THEN [ok |-> TRUE, v |-> IsoTable[s[1]]]
  ELSE [ok |-> FALSE, v |-> 0]

datetime_add_seconds(dt, secs) == PyDateTime(dt.dt + secs)

\* PyFloat_AsDouble: TypeError on a str
PyFloat_AsDouble(o) ==
  IF Has(o, "flt") THEN [ok |-> TRUE, v |-> o.flt]
  ELSE IF Has(o, "int") THEN [ok |-> TRUE, v |-> o.int]
  ELSE [ok |-> FALSE, v |-> 0]

\* ---- attribute lists ----
normalize_attribute(name) == Join(LStrip(RStrip([i \in 1..Len(name) |-> NormChar(name[i])])))

create_normalized_key(name) == Join(RStrip([i \in 1..Len(LStrip(name)) |-> NormChar(LStrip(name)[i])]))

remove_quotes(s) ==
  IF Len(s) >= 2 /\ ((s[1] = DQ /\ s[Len(s)] = DQ) \/ (s[1] = SQ /\ s[Len(s)] = SQ))
  THEN SubSeq(s, 2, Len(s) - 1)
  ELSE s

\* attribute kinds of the per-tag schemas (AttrType)
ATTR_STRING == "string"
ATTR_INT == "int"
ATTR_FLOAT == "float"
ATTR_QUOTED_STRING == "quoted"
ATTR_BANDWIDTH == "bandwidth"

stream_inf_parsers ==
  [codecs |-> ATTR_QUOTED_STRING, audio |-> ATTR_QUOTED_STRING, video |-> ATTR_QUOTED_STRING,
   video_range |-> ATTR_QUOTED_STRING, subtitles |-> ATTR_QUOTED_STRING,
   pathway_id |-> ATTR_QUOTED_STRING, stable_variant_id |-> ATTR_QUOTED_STRING,
   program_id |-> ATTR_INT, bandwidth |-> ATTR_BANDWIDTH, average_bandwidth |-> ATTR_INT,
   frame_rate |-> ATTR_FLOAT, hdcp_level |-> ATTR_STRING]

part_parsers ==
  [uri |-> ATTR_QUOTED_STRING, duration |-> ATTR_FLOAT, independent |-> ATTR_STRING,
   gap |-> ATTR_STRING, byterange |-> ATTR_STRING]

media_parsers ==
  [uri |-> ATTR_QUOTED_STRING, group_id |-> ATTR_QUOTED_STRING, language |-> ATTR_QUOTED_STRING,
   assoc_language |-> ATTR_QUOTED_STRING, name |-> ATTR_QUOTED_STRING,
   instream_id |-> ATTR_QUOTED_STRING, characteristics |-> ATTR_QUOTED_STRING,
   channels |-> ATTR_QUOTED_STRING, stable_rendition_id |-> ATTR_QUOTED_STRING,
   thumbnails |-> ATTR_QUOTED_STRING, image |-> ATTR_QUOTED_STRING]

rendition_report_parsers ==
  [uri |-> ATTR_QUOTED_STRING, last_msn |-> ATTR_INT, last_part |-> ATTR_INT]

session_data_parsers ==
  [data_id |-> ATTR_QUOTED_STRING, value |-> ATTR_QUOTED_STRING, uri |-> ATTR_QUOTED_STRING,
   language |-> ATTR_QUOTED_STRING]

x_map_parsers == [uri |-> ATTR_QUOTED_STRING, byterange |-> ATTR_QUOTED_STRING]

tiles_parsers ==
  [uri |-> ATTR_QUOTED_STRING, resolution |-> ATTR_STRING, layout |-> ATTR_STRING,
   duration |-> ATTR_FLOAT]

image_stream_inf_parsers ==
  [codecs |-> ATTR_QUOTED_STRING, uri |-> ATTR_QUOTED_STRING, pathway_id |-> ATTR_QUOTED_STRING,
   stable_variant_id |-> ATTR_QUOTED_STRING, program_id |-> ATTR_INT, bandwidth |-> ATTR_INT,
   average_bandwidth |-> ATTR_INT, resolution |-> ATTR_STRING]

iframe_stream_inf_parsers ==
  [codecs |-> ATTR_QUOTED_STRING, uri |-> ATTR_QUOTED_STRING, pathway_id |-> ATTR_QUOTED_STRING,
   stable_variant_id |-> ATTR_QUOTED_STRING, program_id |-> ATTR_INT, bandwidth |-> ATTR_INT,
   average_bandwidth |-> ATTR_INT, hdcp_level |-> ATTR_STRING]

cueout_parsers == [cue |-> ATTR_QUOTED_STRING]

AttrTypeOf(parsers, key) == IF key \in DOMAIN parsers THEN parsers[key] ELSE ATTR_STRING

\* baseline tokenizer: the loop of parse_attribute_list, from position p
RECURSIVE parse_attribute_list_from(_, _, _)
parse_attribute_list_from(s, p0, attrs) ==
  LET p1 == SkipSpaces(s, p0) IN
  IF p1 > Len(s) THEN attrs
  ELSE
    LET p2 == ScanTo(s, p1, {"=", ","}) IN
    IF p2 <= Len(s) /\ s[p2] = "="
    THEN
      LET name == normalize_attribute(SubSeq(s, p1, p2 - 1))
          p3 == p2 + 1
          quoted == p3 <= Len(s) /\ s[p3] \in {DQ, SQ}
          p4 == IF quoted THEN ScanTo(s, p3 + 1, {s[p3]}) ELSE ScanTo(s, p3, {","})
          p5 == IF quoted /\ p4 <= Len(s) THEN p4 + 1 ELSE p4
          value == SubSeq(s, p3, p5 - 1)
          p6 == IF p5 <= Len(s) /\ s[p5] = "," THEN p5 + 1 ELSE p5
      IN parse_attribute_list_from(s, p6, PyDict_SetItem(attrs, name, PyStr(value)))
    ELSE
      LET trimmed == strip(SubSeq(s, p1, p2 - 1))
          p6 == IF p2 <= Len(s) /\ s[p2] = "," THEN p2 + 1 ELSE p2
      IN parse_attribute_list_from(s, p6,
           IF trimmed # <<>> THEN PyDict_SetItem(attrs, "", PyStr(trimmed)) ELSE attrs)

\* optimized tokenizer: the loop of parse_attribute_list_raw, from position p
RECURSIVE parse_attribute_list_raw_from(_, _, _)
parse_attribute_list_raw_from(s, p0, attrs) ==
  LET p1 == SkipSpacesAndCommas(s, p0) IN
  IF p1 > Len(s) THEN attrs
  ELSE
    LET p2 == ScanTo(s, p1, {"=", ","}) IN
    IF p2 <= Len(s) /\ s[p2] = "="
    THEN
      LET key == create_normalized_key(SubSeq(s, p1, p2 - 1))
          p3 == p2 + 1
          quoted == p3 <= Len(s) /\ s[p3] \in {DQ, SQ}
          p4 == IF quoted THEN ScanTo(s, p3 + 1, {s[p3]}) ELSE ScanTo(s, p3, {","})
          p5 == IF quoted /\ p4 <= Len(s) THEN p4 + 1 ELSE p4
          value == IF quoted THEN SubSeq(s, p3, p5 - 1) ELSE RStrip(SubSeq(s, p3, p5 - 1))
      IN parse_attribute_list_raw_from(s, p5, PyDict_SetItem(attrs, key, PyStr(value)))
    ELSE
      parse_attribute_list_raw_from(s, p2,
        PyDict_SetItem(attrs, "", PyStr(RStrip(SubSeq(s, p1, p2 - 1)))))

parse_attribute_list_raw(s) == parse_attribute_list_raw_from(s, 1, PyDict_New)

\* parse_attribute_list(line, prefix) on the text that follows "PREFIX:" (empty
\* when the line is the tag name alone), in the variant v
parse_attribute_list(v, s) ==
  IF v = "baseline" THEN parse_attribute_list_from(s, 1, PyDict_New)
  ELSE parse_attribute_list_raw(s)

\* the value conversion of parse_attributes_with_schema: inner is the value
\* without its quotes, full the token as written
SchemaValue(type, quoted, inner, full) ==
  CASE type = ATTR_QUOTED_STRING -> PyStr(inner)
    [] type = ATTR_STRING -> PyStr(IF quoted THEN full ELSE inner)
    [] type = ATTR_INT ->
         IF PyLong_FromString(inner).ok THEN PyLong(PyLong_FromString(inner).v)
         ELSE PyStr(inner)
    [] type = ATTR_BANDWIDTH ->
         IF PyOS_string_to_double(inner).ok THEN PyLong(PyOS_string_to_double(inner).v)
         ELSE PyStr(inner)
    [] type = ATTR_FLOAT ->
         IF PyOS_string_to_double(inner).ok THEN PyFloat(PyOS_string_to_double(inner).v)
         ELSE PyStr(inner)

RECURSIVE parse_attributes_with_schema_from(_, _, _, _)
parse_attributes_with_schema_from(s, p0, parsers, attrs) ==
  LET p1 == SkipSpacesAndCommas(s, p0) IN
  IF p1 > Len(s) THEN attrs
  ELSE
    LET p2 == ScanTo(s, p1, {"=", ","}) IN
    IF p2 <= Len(s) /\ s[p2] = "="
    THEN
      LET key == create_normalized_key(SubSeq(s, p1, p2 - 1))
          type == AttrTypeOf(parsers, key)
          p3 == p2 + 1
          quoted == p3 <= Len(s) /\ s[p3] \in {DQ, SQ}
          p4 == IF quoted THEN ScanTo(s, p3 + 1, {s[p3]}) ELSE ScanTo(s, p3, {","})
          p5 == IF quoted /\ p4 <= Len(s) THEN p4 + 1 ELSE p4
          inner == IF quoted THEN SubSeq(s, p3 + 1, p4 - 1) ELSE RStrip(SubSeq(s, p3, p4 - 1))
          full == SubSeq(s, p3, p5 - 1)
      IN parse_attributes_with_schema_from(s, p5, parsers,
           PyDict_SetItem(attrs, key, SchemaValue(type, quoted, inner, full)))
    ELSE
      parse_attributes_with_schema_from(s, p2, parsers,
        PyDict_SetItem(attrs, "", PyStr(RStrip(SubSeq(s, p1, p2 - 1)))))

parse_attributes_with_schema(s, parsers) ==
  parse_attributes_with_schema_from(s, 1, parsers, PyDict_New)

\* the conversion loop of the baseline parse_typed_attribute_list: an
\* attribute whose numeric conversion fails gets no entry
TypedOk(type, value) ==
  CASE type = ATTR_INT -> PyLong_FromString(value).ok
    [] type \in {ATTR_FLOAT, ATTR_BANDWIDTH} -> PyOS_string_to_double(value).ok
    [] OTHER -> TRUE

TypedValue(type, value) ==
  CASE type = ATTR_INT -> PyLong(PyLong_FromString(value).v)
    [] type = ATTR_FLOAT -> PyFloat(PyOS_string_to_double(value).v)
    [] type = ATTR_BANDWIDTH -> PyLong(PyOS_string_to_double(value).v)
    [] type = ATTR_QUOTED_STRING -> PyStr(remove_quotes(value))
    [] OTHER -> PyStr(value)

\* the typed dictionary the baseline builds from the raw attributes
TypedAttributes(raw_attrs, parsers) ==
  [k \in {y \in DOMAIN raw_attrs : TypedOk(AttrTypeOf(parsers, y), raw_attrs[y].str)} |->
     TypedValue(AttrTypeOf(parsers, k), raw_attrs[k].str)]

parse_typed_attribute_list(v, s, parsers) ==
  IF v = "baseline"
  THEN TypedAttributes(parse_attribute_list_from(s, 1, PyDict_New), parsers)
  ELSE parse_attributes_with_schema(s, parsers)

\* ---- results of the handlers ----
\* rc = 0 with the new Document and ParseState, or rc = -1 with the exception
Done(d, st) == [rc |-> 0, data |-> d, state |-> st, exc |-> [exc |-> "none"]]
Raised(d, st, e) == [rc |-> -1, data |-> d, state |-> st, exc |-> e]

raise_parse_error(lineno, line) == [exc |-> "ParseError", lineno |-> lineno, line |-> line]
ValueError == [exc |-> "ValueError"]
TypeError == [exc |-> "TypeError"]

\* the Document is created without its tiles list
init_parse_data_without_tiles ==
  [media_sequence |-> PyLong(0), is_variant |-> Py_False, is_endlist |-> Py_False,
   is_i_frames_only |-> Py_False, is_independent_segments |-> Py_False,
   is_images_only |-> Py_False, playlist_type |-> PyNone,
   playlists |-> <<>>, segments |-> <<>>, iframe_playlists |-> <<>>,
   image_playlists |-> <<>>, media |-> <<>>, keys |-> <<>>,
   rendition_reports |-> <<>>, session_data |-> <<>>, session_keys |-> <<>>,
   segment_map |-> <<>>, skip |-> PyDict(PyDict_New), part_inf |-> PyDict(PyDict_New)]

init_parse_data ==
  [media_sequence |-> PyLong(0), is_variant |-> Py_False, is_endlist |-> Py_False,
   is_i_frames_only |-> Py_False, is_independent_segments |-> Py_False,
   is_images_only |-> Py_False, playlist_type |-> PyNone,
   playlists |-> <<>>, segments |-> <<>>, iframe_playlists |-> <<>>,
   image_playlists |-> <<>>, tiles |-> <<>>, media |-> <<>>, keys |-> <<>>,
   rendition_reports |-> <<>>, session_data |-> <<>>, session_keys |-> <<>>,
   segment_map |-> <<>>, skip |-> PyDict(PyDict_New), part_inf |-> PyDict(PyDict_New)]

init_parse_state == [expect_segment |-> Py_False, expect_playlist |-> Py_False]

\* the pending segment dict of the ParseState, created when absent
get_or_create_segment(state) ==
  IF Has(state, "segment") THEN state ELSE PyDict_SetItem(state, "segment", PyDict(PyDict_New))

SetSegmentItem(state, k, v) ==
  PyDict_SetItem(state, "segment", PyDict(PyDict_SetItem(state["segment"].dict, k, v)))

\* parse_key without the search for an equal entry
parse_key_appends(v, body, data, state) ==
  LET raw_attrs == parse_attribute_list(v, body)
      key == [k \in DOMAIN raw_attrs |-> PyStr(remove_quotes(raw_attrs[k].str))]
  IN Done(PyDict_SetItem(data, "keys", Append(data["keys"], PyDict(key))),
          PyDict_SetItem(state, "current_key", PyDict(key)))

\* parse_key: every attribute value loses its quotes; the key becomes the
\* current key and joins data["keys"] unless an equal entry is there
parse_key(v, body, data, state) ==
  LET raw_attrs == parse_attribute_list(v, body)
      key == [k \in DOMAIN raw_attrs |-> PyStr(remove_quotes(raw_attrs[k].str))]
      keys == data["keys"]
      found == \E i \in 1..Len(keys) : keys[i] = PyDict(key)
  IN Done(IF found THEN data ELSE PyDict_SetItem(data, "keys", Append(keys, PyDict(key))),
          PyDict_SetItem(state, "current_key", PyDict(key)))

\* EXTINF as a tag that announces a segment without holding one
parse_extinf_announces(line, content, data, state, lineno, strict) ==
  IF strchr(content, ",") = 0 /\ strict
  THEN Raised(data, state, raise_parse_error(lineno, line))
  ELSE Done(data, PyDict_SetItem(state, "expect_segment", Py_True))

\* parse_extinf on the text that follows "#EXTINF:"
parse_extinf(line, content, data, state, lineno, strict) ==
  LET comma == strchr(content, ",")
      dur_text == IF comma # 0 THEN SubSeq(content, 1, comma - 1) ELSE content
      conv == PyOS_string_to_double(dur_text)
      duration == IF conv.ok THEN conv.v ELSE 0
      title == IF comma # 0 THEN SubSeq(content, comma + 1, Len(content)) ELSE <<>>
      st1 == get_or_create_segment(state)
      st2 == SetSegmentItem(st1, "duration", PyFloat(duration))
      st3 == SetSegmentItem(st2, "title", PyStr(title))
  IN IF comma = 0 /\ strict
     THEN Raised(data, state, raise_parse_error(lineno, line))
     ELSE Done(data, PyDict_SetItem(st3, "expect_segment", Py_True))

\* moves state[k] to segment[sk], or sets segment[sk] to None
MoveOrNone(r, k, sk, asTrue) ==
  IF Has(r.state, k)
  THEN [seg |-> PyDict_SetItem(r.seg, sk, IF asTrue THEN Py_True ELSE r.state[k]),
        state |-> del_item_string_ignore_keyerror(r.state, k)]
  ELSE [seg |-> PyDict_SetItem(r.seg, sk, PyNone), state |-> r.state]

\* segment[k] = (k in state), and k stays in the state
FlagFromState_kept(r, k) ==
  [seg |-> PyDict_SetItem(r.seg, k, PyBool(Has(r.state, k))), state |-> r.state]

\* segment[k] = (k in state), and k leaves the state
FlagFromState(r, k) ==
  [seg |-> PyDict_SetItem(r.seg, k, PyBool(Has(r.state, k))),
   state |-> del_item_string_ignore_keyerror(r.state, k)]

scte_keys == <<"current_cue_out_scte35", "current_cue_out_oatcls_scte35",
               "current_cue_out_duration", "current_cue_out_elapsedtime", "asset_metadata">>
seg_keys == <<"scte35", "oatcls_scte35", "scte35_duration", "scte35_elapsedtime",
              "asset_metadata">>

RECURSIVE ScteLoop(_, _, _)
ScteLoop(r, i, cue_out_truth) ==
  IF i > 5 THEN r
  ELSE ScteLoop(
         IF Has(r.state, scte_keys[i])
         THEN [seg |-> PyDict_SetItem(r.seg, seg_keys[i], r.state[scte_keys[i]]),
               state |-> IF cue_out_truth THEN r.state
                         ELSE del_item_string_ignore_keyerror(r.state, scte_keys[i])]
         ELSE [seg |-> PyDict_SetItem(r.seg, seg_keys[i], PyNone), state |-> r.state],
         i + 1, cue_out_truth)

PyObject_IsTrue(o) ==
  IF Has(o, "bool") THEN o.bool ELSE IF Has(o, "none") THEN FALSE ELSE TRUE

\* the None sentinel appended for every unencrypted segment
EnsureNoneKey_appends(keys) == Append(keys, PyNone)

\* the None sentinel of data["keys"] for unencrypted segments
EnsureNoneKey(keys) ==
  IF \E i \in 1..Len(keys) : keys[i] = PyNone THEN keys ELSE Append(keys, PyNone)

\* parse_ts_chunk, in the order of its statements.  r holds the segment being
\* finalized (seg) and the ParseState (state) between two statements.
TsTake(line, state) ==
  [seg |-> PyDict_SetItem(IF Has(state, "segment") THEN state["segment"].dict ELSE PyDict_New,
                          "uri", PyStr(line)),
   state |-> del_item_string_ignore_keyerror(state, "segment")]

TsProgramDateTime(r) ==
  IF Has(r.state, "program_date_time")
  THEN [seg |-> PyDict_SetItem(r.seg, "program_date_time", r.state["program_date_time"]),
        state |-> del_item_string_ignore_keyerror(r.state, "program_date_time")]
  ELSE r

\* PyFloat_AsDouble(segment["duration"]) fails: parse_ts_chunk returns -1
TsDurationError(r) ==
  /\ Has(r.state, "current_program_date_time")
  /\ Has(r.seg, "duration")
  /\ ~PyFloat_AsDouble(r.seg["duration"]).ok

\* the segment takes the current program date time, which is not advanced
TsCurrentProgramDateTime_not_advanced(r) ==
  IF Has(r.state, "current_program_date_time")
  THEN [seg |-> PyDict_SetItem(r.seg, "current_program_date_time",
                               r.state["current_program_date_time"]),
        state |-> r.state]
  ELSE r

TsCurrentProgramDateTime(r) ==
  IF Has(r.state, "current_program_date_time")
  THEN [seg |-> PyDict_SetItem(r.seg, "current_program_date_time",
                               r.state["current_program_date_time"]),
        state |-> IF Has(r.seg, "duration")
                  THEN PyDict_SetItem(r.state, "current_program_date_time",
                         datetime_add_seconds(r.state["current_program_date_time"],
                                              PyFloat_AsDouble(r.seg["duration"]).v))
                  ELSE r.state]
  ELSE r

CueOutTruth(state) == Has(state, "cue_out") /\ PyObject_IsTrue(state["cue_out"])

\* cue_out is read here and leaves the state only after the SCTE-35 loop
TsCueOut(r) ==
  [seg |-> PyDict_SetItem(r.seg, "cue_out", PyBool(CueOutTruth(r.state))), state |-> r.state]

\* the SCTE-35 loop copies the fields and removes none of them
TsScte_keeps(r) ==
  [seg |-> ScteLoop(r, 1, CueOutTruth(r.state)).seg,
   state |-> del_item_string_ignore_keyerror(r.state, "cue_out")]

TsScte(r) ==
  [seg |-> ScteLoop(r, 1, CueOutTruth(r.state)).seg,
   state |-> del_item_string_ignore_keyerror(ScteLoop(r, 1, CueOutTruth(r.state)).state,
                                             "cue_out")]

\* the segment takes no key
TsKey_unset(r) == r

TsKey(r) ==
  IF Has(r.state, "current_key")
  THEN [seg |-> PyDict_SetItem(r.seg, "key", r.state["current_key"]), state |-> r.state]
  ELSE r

TsKeysOfData(data, state) ==
  IF Has(state, "current_key") \/ ~Has(data, "keys") THEN data
  ELSE PyDict_SetItem(data, "keys", EnsureNoneKey(data["keys"]))

\* the segment takes the current segment map even when it is empty
TsInitSection_any(r) ==
  IF Has(r.state, "current_segment_map")
  THEN [seg |-> PyDict_SetItem(r.seg, "init_section", r.state["current_segment_map"]),
        state |-> r.state]
  ELSE r

TsInitSection(r) ==
  IF Has(r.state, "current_segment_map") /\ DOMAIN r.state["current_segment_map"].dict # {}
  THEN [seg |-> PyDict_SetItem(r.seg, "init_section", r.state["current_segment_map"]),
        state |-> r.state]
  ELSE r

TsFinalize(line, state) ==
  MoveOrNone(MoveOrNone(MoveOrNone(
    TsInitSection(TsKey(FlagFromState(TsScte(
      FlagFromState(FlagFromState(TsCueOut(FlagFromState(
        TsCurrentProgramDateTime(TsProgramDateTime(TsTake(line, state))),
        "cue_in")), "cue_out_start"), "cue_out_explicitly_duration")),
      "discontinuity"))),
    "dateranges", "dateranges", FALSE), "gap", "gap_tag", TRUE), "blackout", "blackout", FALSE)

TsAppend(data, r) ==
  Done(IF Has(data, "segments")
       THEN PyDict_SetItem(data, "segments", Append(data["segments"], PyDict(r.seg)))
       ELSE data,
       PyDict_SetItem(r.state, "expect_segment", Py_False))

\* parse_ts_chunk: the bare line is the URI of the pending segment
parse_ts_chunk(line, data, state) ==
  IF TsDurationError(TsProgramDateTime(TsTake(line, state)))
  THEN Raised(data, state, TypeError)
  ELSE TsAppend(TsKeysOfData(data, state), TsFinalize(line, state))

\* parse_variant_playlist: the bare line is the URI of a variant playlist
\* the playlist is appended and the stream info stays pending
parse_variant_playlist_keeps(line, data, state) ==
  Done(IF Has(data, "playlists")
       THEN PyDict_SetItem(data, "playlists",
              Append(data["playlists"],
                     PyDict([uri |-> PyStr(line),
                             stream_info |-> IF Has(state, "stream_info")
                                             THEN state["stream_info"]
                                             ELSE PyDict(PyDict_New)])))
       ELSE data,
       PyDict_SetItem(state, "expect_playlist", Py_False))

parse_variant_playlist(line, data, state) ==
  LET stream_info == IF Has(state, "stream_info") THEN state["stream_info"]
                     ELSE PyDict(PyDict_New)
      playlist == [uri |-> PyStr(line), stream_info |-> stream_info]
      st1 == del_item_string_ignore_keyerror(state, "stream_info")
  IN Done(IF Has(data, "playlists")
          THEN PyDict_SetItem(data, "playlists", Append(data["playlists"], PyDict(playlist)))
          ELSE data,
          PyDict_SetItem(st1, "expect_playlist", Py_False))

\* parse_program_date_time: a line without ':' is left alone; a payload that
\* datetime.fromisoformat rejects ends the parse with its ValueError
\* every tag replaces the program date time of the Document
parse_program_date_time_overwrites(l, data, state) ==
  IF ~l.colon THEN Done(data, state)
  ELSE IF ~fromisoformat(l.body).ok THEN Raised(data, state, ValueError)
  ELSE Done(PyDict_SetItem(data, "program_date_time", PyDateTime(fromisoformat(l.body).v)),
            PyDict_SetItem(PyDict_SetItem(state, "current_program_date_time",
                                          PyDateTime(fromisoformat(l.body).v)),
                           "program_date_time", PyDateTime(fromisoformat(l.body).v)))

parse_program_date_time(l, data, state) ==
  LET dt == fromisoformat(l.body)
      existing_unset == ~Has(data, "program_date_time") \/ data["program_date_time"] = PyNone
      st1 == PyDict_SetItem(state, "current_program_date_time", PyDateTime(dt.v))
  IN IF ~l.colon THEN Done(data, state)
     ELSE IF ~dt.ok THEN Raised(data, state, ValueError)
     ELSE Done(IF existing_unset
               THEN PyDict_SetItem(data, "program_date_time", PyDateTime(dt.v)) ELSE data,
               PyDict_SetItem(st1, "program_date_time", PyDateTime(dt.v)))

\* parse_part, in the order of its statements
PartDurationError(part, state) ==
  /\ Has(state, "current_program_date_time")
  /\ Has(part, "duration")
  /\ ~PyFloat_AsDouble(part["duration"]).ok

PartProgramDateTime(part, state) ==
  IF Has(state, "current_program_date_time")
  THEN [seg |-> PyDict_SetItem(part, "program_date_time", state["current_program_date_time"]),
        state |-> IF Has(part, "duration")
                  THEN PyDict_SetItem(state, "current_program_date_time",
                         datetime_add_seconds(state["current_program_date_time"],
                                              PyFloat_AsDouble(part["duration"]).v))
                  ELSE state]
  ELSE [seg |-> part, state |-> state]

PartsOf(state) ==
  IF Has(state["segment"].dict, "parts") THEN state["segment"].dict["parts"].list ELSE <<>>

PartAppend(part, state) ==
  SetSegmentItem(state, "parts", PyList(Append(PartsOf(state), PyDict(part))))

PartAttach(r) == PartAppend(r.seg, get_or_create_segment(r.state))

PartWith(part, data, state) ==
  IF PartDurationError(part, state)
  THEN Raised(data, state, TypeError)
  ELSE Done(data, PartAttach(MoveOrNone(MoveOrNone(PartProgramDateTime(part, state),
                                                    "dateranges", "dateranges", FALSE),
                                         "gap", "gap_tag", TRUE)))

parse_part(v, body, data, state) ==
  PartWith(parse_typed_attribute_list(v, body, part_parsers), data, state)

\* ---- lines ----
\* A stripped line: tag is the text before the first ':' of a line that
\* starts with '#' ("" for any other line), colon tells whether the line has
\* a ':', body is the text after that ':' (the whole text of a bare line).
Line(tag, colon, body) == [tag |-> tag, colon |-> colon, body |-> body]
IsTagLine(l) == l.tag # ""
IsEmptyLine(l) == l.tag = "" /\ l.body = <<>>
IsBlankLine(l) == l.tag = "" /\ strip(l.body) = <<>>
IsBareLine(l) == l.tag = "" /\ strip(l.body) # <<>>

\* what "stripped + strlen(TAG) + 1" points at: the body when the line has a
\* ':', otherwise bytes past the terminating NUL of the line, whose content
\* the handler does not control
BeyondLine == {<<>>, <<"7">>, <<"7", ",">>}
PayloadAt(l) == IF l.colon THEN {l.body} ELSE BeyondLine

\* "TAG:<integer>" tags: the Document field is set when the payload converts
SetIntField(data, state, field, content) ==
  IF PyLong_FromString(content).ok
  THEN Done(PyDict_SetItem(data, field, PyLong(PyLong_FromString(content).v)), state)
  ELSE Done(data, state)

\* EXT-X-BYTERANGE as a tag that announces nothing
ext_x_byterange_no_expect(content, data, state) ==
  Done(data, SetSegmentItem(get_or_create_segment(state), "byterange", PyStr(content)))

ext_x_byterange(content, data, state) ==
  LET st1 == SetSegmentItem(get_or_create_segment(state), "byterange", PyStr(content))
  IN Done(data, PyDict_SetItem(st1, "expect_segment", Py_True))

\* EXT-X-BITRATE as a tag that also announces the segment URI
ext_x_bitrate_expects(content, data, state) ==
  LET st1 == get_or_create_segment(state)
  IN Done(data, PyDict_SetItem(IF PyLong_FromString(content).ok
                               THEN SetSegmentItem(st1, "bitrate",
                                                   PyLong(PyLong_FromString(content).v))
                               ELSE st1,
                               "expect_segment", Py_True))

ext_x_bitrate(content, data, state) ==
  LET st1 == get_or_create_segment(state)
  IN Done(data, IF PyLong_FromString(content).ok
                THEN SetSegmentItem(st1, "bitrate", PyLong(PyLong_FromString(content).v))
                ELSE st1)

\* EXT-X-STREAM-INF as a tag that withdraws the announced segment
ext_x_stream_inf_resets(v, body, data, state) ==
  Done(PyDict_SetItem(PyDict_SetItem(data, "is_variant", Py_True), "media_sequence", PyNone),
       PyDict_SetItem(PyDict_SetItem(PyDict_SetItem(state, "expect_playlist", Py_True),
                                     "expect_segment", Py_False),
                      "stream_info",
                      PyDict(parse_typed_attribute_list(v, body, stream_inf_parsers))))

ext_x_stream_inf(v, body, data, state) ==
  LET st1 == PyDict_SetItem(state, "expect_playlist", Py_True)
      d1 == PyDict_SetItem(PyDict_SetItem(data, "is_variant", Py_True),
                           "media_sequence", PyNone)
  IN Done(d1, PyDict_SetItem(st1, "stream_info",
                             PyDict(parse_typed_attribute_list(v, body, stream_inf_parsers))))

\* PyList_Append(PyDict_GetItemString(data, key), item)
PyList_Append(data, key, item) == PyDict_SetItem(data, key, Append(data[key], item))

\* the playlist of an EXT-X-I-FRAME-STREAM-INF or EXT-X-IMAGE-STREAM-INF line:
\* the uri, and the other attributes under info
UriPlaylist(attrs, info) ==
  PyDict([k \in {"uri", info} |->
            IF k = "uri" THEN attrs["uri"]
            ELSE PyDict(del_item_string_ignore_keyerror(attrs, "uri"))])

\* the entry is appended and a playlist URI is expected, as for EXT-X-STREAM-INF
UriStreamInfWith_expects(attrs, list, info, data, state) ==
  IF Has(attrs, "uri")
  THEN Done(PyList_Append(data, list, UriPlaylist(attrs, info)),
            PyDict_SetItem(state, "expect_playlist", Py_True))
  ELSE Done(data, state)

UriStreamInfWith(attrs, list, info, data, state) ==
  IF Has(attrs, "uri")
  THEN Done(PyList_Append(data, list, UriPlaylist(attrs, info)), state)
  ELSE Done(data, state)

\* EXT-X-I-FRAME-STREAM-INF and EXT-X-IMAGE-STREAM-INF: with a uri attribute,
\* a playlist of the uri and the other attributes joins the list
ext_x_uri_stream_inf(v, body, parsers, list, info, data, state) ==
  UriStreamInfWith(parse_typed_attribute_list(v, body, parsers), list, info, data, state)

\* EXT-X-MEDIA, EXT-X-RENDITION-REPORT, EXT-X-SESSION-DATA, EXT-X-TILES: the
\* typed attributes join the list
ext_x_append_typed(v, body, parsers, list, data, state) ==
  Done(PyList_Append(data, list, PyDict(parse_typed_attribute_list(v, body, parsers))), state)

MapWith(map_info, data, state) ==
  Done(PyList_Append(data, "segment_map", map_info),
       PyDict_SetItem(state, "current_segment_map", map_info))

\* EXT-X-MAP: the typed attributes become the current segment map and join
\* data["segment_map"]
ext_x_map(v, body, data, state) ==
  MapWith(PyDict(parse_typed_attribute_list(v, body, x_map_parsers)), data, state)

SessionKeyWith(raw_attrs, data, state) ==
  Done(PyList_Append(data, "session_keys",
                     PyDict([k \in DOMAIN raw_attrs |-> PyStr(remove_quotes(raw_attrs[k].str))])),
       state)

\* EXT-X-SESSION-KEY as a tag that also makes its key the current key
ext_x_session_key_current(v, body, data, state) ==
  Done(SessionKeyWith(parse_attribute_list(v, body), data, state).data,
       PyDict_SetItem(state, "current_key",
                      PyDict([k \in DOMAIN parse_attribute_list(v, body) |->
                                PyStr(remove_quotes(parse_attribute_list(v, body)[k].str))])))

\* EXT-X-SESSION-KEY: every attribute value loses its quotes, and the key
\* joins data["session_keys"]
ext_x_session_key(v, body, data, state) ==
  SessionKeyWith(parse_attribute_list(v, body), data, state)

\* sizeof(upper_line) in parse_cueout
UpperLineSize == 1024

\* strstr(upper_line, "DURATION"): upper_line is the upper-cased copy of the
\* first UpperLineSize - 1 bytes of the line, which starts with the tag and ':'
UpperLineHasDuration(l) ==
  \E i \in 1..Len(l.body) :
    /\ tolower(l.body[i]) = "duration"
    /\ Len(l.tag) + 1 + strlen(SubSeq(l.body, 1, i - 1)) + 8 <= UpperLineSize - 1

\* parse_cueout up to the DURATION test
CueOutDuration(l, state) ==
  IF UpperLineHasDuration(l)
  THEN PyDict_SetItem(state, "cue_out_explicitly_duration", Py_True)
  ELSE state

\* parse_cueout after the DURATION test: the attributes of the payload
CueOutInfo(cue_info, state) ==
  LET st1 == IF Has(cue_info, "cue")
             THEN PyDict_SetItem(state, "current_cue_out_scte35", cue_info["cue"])
             ELSE state
  IN IF Has(cue_info, "duration")
     THEN PyDict_SetItem(st1, "current_cue_out_duration", cue_info["duration"])
     ELSE IF Has(cue_info, "")
     THEN PyDict_SetItem(st1, "current_cue_out_duration", cue_info[""])
     ELSE st1

\* parse_cueout that marks the start of a cue-out without the cue-out itself
parse_cueout_start_only(v, l, data, state) ==
  Done(data, CueOutDuration(l, PyDict_SetItem(state, "cue_out_start", Py_True)))

parse_cueout(v, l, data, state) ==
  LET st1 == CueOutDuration(l, PyDict_SetItem(PyDict_SetItem(state, "cue_out_start", Py_True),
                                              "cue_out", Py_True))
  IN IF ~l.colon \/ l.body = <<>> THEN Done(data, st1)
     ELSE Done(data, CueOutInfo(parse_typed_attribute_list(v, l.body, cueout_parsers), st1))

\* sizeof(elapsed_str) in parse_cueout_cont
ElapsedSize == 64

cueout_cont_parsers ==
  [duration |-> ATTR_QUOTED_STRING, elapsedtime |-> ATTR_QUOTED_STRING,
   scte35 |-> ATTR_QUOTED_STRING]

\* memcpy of at most n bytes of s: a symbol that stands for several bytes is
\* copied whole or not at all
RECURSIVE TakeBytes(_, _)
TakeBytes(s, n) ==
  IF s = <<>> \/ strlen(<<Head(s)>>) > n THEN <<>>
  ELSE <<Head(s)>> \o TakeBytes(Tail(s), n - strlen(<<Head(s)>>))

\* parse_cueout_cont: the bare value "elapsed/duration", its '/' at position p
\* (0 when there is none)
CueOutContProgress(progress, p, state) ==
  IF p > 0
  THEN PyDict_SetItem(
         PyDict_SetItem(state, "current_cue_out_elapsedtime",
                        PyStr(TakeBytes(SubSeq(progress.str, 1, p - 1), ElapsedSize - 1))),
         "current_cue_out_duration", PyStr(SubSeq(progress.str, p + 1, Len(progress.str))))
  ELSE PyDict_SetItem(state, "current_cue_out_duration", progress)

\* PyDict_GetItemString(cue_info, key), stored under skey when present
CueOutContAttr(cue_info, key, skey, state) ==
  IF Has(cue_info, key) THEN PyDict_SetItem(state, skey, cue_info[key]) ELSE state

CueOutContInfo(cue_info, state) ==
  CueOutContAttr(cue_info, "elapsedtime", "current_cue_out_elapsedtime",
    CueOutContAttr(cue_info, "scte35", "current_cue_out_scte35",
      CueOutContAttr(cue_info, "duration", "current_cue_out_duration",
        IF Has(cue_info, "")
        THEN CueOutContProgress(cue_info[""], strchr(cue_info[""].str, "/"), state)
        ELSE state)))

parse_cueout_cont(v, l, data, state) ==
  IF ~l.colon \/ l.body = <<>> THEN Done(data, PyDict_SetItem(state, "cue_out", Py_True))
  ELSE Done(data, CueOutContInfo(parse_typed_attribute_list(v, l.body, cueout_cont_parsers),
                                 PyDict_SetItem(state, "cue_out", Py_True)))

\* the payload replaces the SCTE-35 value even when one is held
ext_oatcls_scte35_overwrites(l, data, state) ==
  IF ~l.colon THEN Done(data, state)
  ELSE Done(data, PyDict_SetItem(PyDict_SetItem(state, "current_cue_out_oatcls_scte35",
                                                PyStr(l.body)),
                                 "current_cue_out_scte35", PyStr(l.body)))

\* EXT-OATCLS-SCTE35: the payload is always the OATCLS value, and the SCTE-35
\* value only when none is held
ext_oatcls_scte35(l, data, state) ==
  IF ~l.colon THEN Done(data, state)
  ELSE Done(data,
            IF Has(state, "current_cue_out_scte35")
            THEN PyDict_SetItem(state, "current_cue_out_oatcls_scte35", PyStr(l.body))
            ELSE PyDict_SetItem(PyDict_SetItem(state, "current_cue_out_oatcls_scte35",
                                               PyStr(l.body)),
                                "current_cue_out_scte35", PyStr(l.body)))

\* EXT-X-ASSET: the attribute list becomes state["asset_metadata"]
ext_x_asset(v, l, data, state) ==
  Done(data, PyDict_SetItem(state, "asset_metadata", PyDict(parse_attribute_list(v, l.body))))

daterange_parsers ==
  [id |-> ATTR_QUOTED_STRING, class |-> ATTR_QUOTED_STRING, start_date |-> ATTR_QUOTED_STRING,
   end_date |-> ATTR_QUOTED_STRING, duration |-> ATTR_FLOAT, planned_duration |-> ATTR_FLOAT,
   end_on_next |-> ATTR_STRING, scte35_cmd |-> ATTR_STRING, scte35_out |-> ATTR_STRING,
   scte35_in |-> ATTR_STRING]

\* the record is appended to a new list that replaces the pending one
DaterangeWith_alone(daterange, data, state) ==
  Done(data, PyDict_SetItem(state, "dateranges", PyList(<<daterange>>)))

\* the record joins state["dateranges"], a new list when there is none
DaterangeWith(daterange, data, state) ==
  Done(data, PyDict_SetItem(state, "dateranges",
                            PyList(Append(IF Has(state, "dateranges")
                                          THEN state["dateranges"].list ELSE <<>>,
                                          daterange))))

ext_x_daterange(v, body, data, state) ==
  DaterangeWith(PyDict(parse_typed_attribute_list(v, body, daterange_parsers)), data, state)

\* EXT-X-BLACKOUT: the payload when there is one, True otherwise
ext_x_blackout(l, data, state) ==
  Done(data, PyDict_SetItem(state, "blackout",
                            IF l.colon /\ l.body # <<>> THEN PyStr(l.body) ELSE Py_True))

\* the tag names of the dispatch chain of m3u8_parse that this model follows
DispatchTags ==
  {"#EXTM3U", "#EXT-X-TARGETDURATION", "#EXT-X-MEDIA-SEQUENCE",
   "#EXT-X-DISCONTINUITY-SEQUENCE", "#EXT-X-PROGRAM-DATE-TIME", "#EXT-X-KEY", "#EXTINF",
   "#EXT-X-BYTERANGE", "#EXT-X-BITRATE", "#EXT-X-STREAM-INF", "#EXT-X-VERSION",
   "#EXT-X-I-FRAMES-ONLY", "#EXT-X-INDEPENDENT-SEGMENTS", "#EXT-X-ENDLIST",
   "#EXT-X-IMAGES-ONLY", "#EXT-X-DISCONTINUITY", "#EXT-X-CUE-IN", "#EXT-X-CUE-SPAN",
   "#EXT-X-GAP", "#EXT-X-PART", "#EXT-X-I-FRAME-STREAM-INF", "#EXT-X-IMAGE-STREAM-INF",
   "#EXT-X-MEDIA", "#EXT-X-MAP", "#EXT-X-RENDITION-REPORT", "#EXT-X-SESSION-DATA",
   "#EXT-X-SESSION-KEY", "#EXT-X-TILES", "#EXT-X-CUE-OUT",
   "#EXT-X-BLACKOUT", "#EXT-X-CUE-OUT-CONT", "#EXT-OATCLS-SCTE35", "#EXT-X-ASSET",
   "#EXT-X-DATERANGE"}

unknown_tag(l, data, state, lineno, strict) ==
  IF strict THEN Raised(data, state, raise_parse_error(lineno, l)) ELSE Done(data, state)

\* the if / else-if chain of m3u8_parse for a line that starts with '#'
Dispatch(v, l, content, data, state, lineno, strict) ==
  CASE l.tag = "#EXTM3U" -> Done(data, state)
    [] l.tag = "#EXT-X-TARGETDURATION" -> SetIntField(data, state, "targetduration", content)
    [] l.tag = "#EXT-X-MEDIA-SEQUENCE" -> SetIntField(data, state, "media_sequence", content)
    [] l.tag = "#EXT-X-DISCONTINUITY-SEQUENCE" ->
         SetIntField(data, state, "discontinuity_sequence", content)
    [] l.tag = "#EXT-X-PROGRAM-DATE-TIME" -> parse_program_date_time(l, data, state)
    [] l.tag = "#EXT-X-KEY" -> parse_key(v, l.body, data, state)
    [] l.tag = "#EXTINF" -> parse_extinf(l, content, data, state, lineno, strict)
    [] l.tag = "#EXT-X-BYTERANGE" -> ext_x_byterange(content, data, state)
    [] l.tag = "#EXT-X-BITRATE" -> ext_x_bitrate(content, data, state)
    [] l.tag = "#EXT-X-STREAM-INF" -> ext_x_stream_inf(v, l.body, data, state)
    [] l.tag = "#EXT-X-VERSION" -> SetIntField(data, state, "version", content)
    [] l.tag = "#EXT-X-I-FRAMES-ONLY" -> Done(PyDict_SetItem(data, "is_i_frames_only", Py_True), state)
    [] l.tag = "#EXT-X-INDEPENDENT-SEGMENTS" ->
         Done(PyDict_SetItem(data, "is_independent_segments", Py_True), state)
    [] l.tag = "#EXT-X-ENDLIST" -> Done(PyDict_SetItem(data, "is_endlist", Py_True), state)
    [] l.tag = "#EXT-X-IMAGES-ONLY" -> Done(PyDict_SetItem(data, "is_images_only", Py_True), state)
    [] l.tag = "#EXT-X-DISCONTINUITY" -> Done(data, PyDict_SetItem(state, "discontinuity", Py_True))
    [] l.tag = "#EXT-X-CUE-IN" -> Done(data, PyDict_SetItem(state, "cue_in", Py_True))
    [] l.tag = "#EXT-X-CUE-SPAN" -> Done(data, PyDict_SetItem(state, "cue_out", Py_True))
    [] l.tag = "#EXT-X-GAP" -> Done(data, PyDict_SetItem(state, "gap", Py_True))
    [] l.tag = "#EXT-X-CUE-OUT" -> parse_cueout(v, l, data, state)
    [] l.tag = "#EXT-X-CUE-OUT-CONT" -> parse_cueout_cont(v, l, data, state)
    [] l.tag = "#EXT-OATCLS-SCTE35" -> ext_oatcls_scte35(l, data, state)
    [] l.tag = "#EXT-X-ASSET" -> ext_x_asset(v, l, data, state)
    [] l.tag = "#EXT-X-DATERANGE" -> ext_x_daterange(v, l.body, data, state)
    [] l.tag = "#EXT-X-PART" -> parse_part(v, l.body, data, state)
    [] l.tag = "#EXT-X-I-FRAME-STREAM-INF" ->
         ext_x_uri_stream_inf(v, l.body, iframe_stream_inf_parsers, "iframe_playlists",
                              "iframe_stream_info", data, state)
    [] l.tag = "#EXT-X-IMAGE-STREAM-INF" ->
         ext_x_uri_stream_inf(v, l.body, image_stream_inf_parsers, "image_playlists",
                              "image_stream_info", data, state)
    [] l.tag = "#EXT-X-MEDIA" ->
         ext_x_append_typed(v, l.body, media_parsers, "media", data, state)
    [] l.tag = "#EXT-X-MAP" -> ext_x_map(v, l.body, data, state)
    [] l.tag = "#EXT-X-RENDITION-REPORT" ->
         ext_x_append_typed(v, l.body, rendition_report_parsers, "rendition_reports", data,
                            state)
    [] l.tag = "#EXT-X-SESSION-DATA" ->
         ext_x_append_typed(v, l.body, session_data_parsers, "session_data", data, state)
    [] l.tag = "#EXT-X-SESSION-KEY" -> ext_x_session_key(v, l.body, data, state)
    [] l.tag = "#EXT-X-BLACKOUT" -> ext_x_blackout(l, data, state)
    [] l.tag = "#EXT-X-TILES" -> ext_x_append_typed(v, l.body, tiles_parsers, "tiles", data, state)
    [] OTHER -> unknown_tag(l, data, state, lineno, strict)

\* the C shadow flags that the optimized variant sets next to the handler
ShadowAfterTag(l, c) ==
  CASE l.tag \in {"#EXTINF", "#EXT-X-BYTERANGE"} -> [c EXCEPT !.expect_segment = TRUE]
    [] l.tag = "#EXT-X-STREAM-INF" -> [c EXCEPT !.expect_playlist = TRUE]
    [] OTHER -> c

\* ---- the content as characters ----
\* "LF" and "CR" are the two line-break characters; with the blank they are
\* the characters isspace accepts; "#" stands for any other character.
Chars == {"#", " ", "LF", "CR"}
IsBreak(c) == c \in {"LF", "CR"}
IsSpaceChar(c) == c \in {" ", "LF", "CR"}

\* the bounds of the trimmed input: the first position that is no space, and
\* the position after the last one that is no space
RECURSIVE TrimStart(_, _)
TrimStart(s, q) == IF q <= Len(s) /\ IsSpaceChar(s[q]) THEN TrimStart(s, q + 1) ELSE q

RECURSIVE TrimEnd(_, _, _)
TrimEnd(s, from, q) == IF q > from /\ IsSpaceChar(s[q - 1]) THEN TrimEnd(s, from, q - 1) ELSE q

trimmed(s) == TrimStart(s, 1)
trimmed_end(s) == TrimEnd(s, TrimStart(s, 1), Len(s) + 1)

\* build_stripped_splitlines, from p with the current line begun at
\* line_start: a line ends at a line break, CR LF being consumed as one, and
\* the last line is appended even if it is empty
RECURSIVE SplitFrom(_, _, _, _, _)
SplitFrom(s, p, line_start, end, acc) ==
  IF p >= end THEN Append(acc, SubSeq(s, line_start, end - 1))
  ELSE IF IsBreak(s[p])
  THEN LET q == IF s[p] = "CR" /\ p + 1 < end /\ s[p + 1] = "LF" THEN p + 2 ELSE p + 1
       IN SplitFrom(s, q, q, end, Append(acc, SubSeq(s, line_start, p - 1)))
  ELSE SplitFrom(s, p + 1, line_start, end, acc)

\* the content is split without being trimmed first
build_stripped_splitlines_untrimmed(s) == SplitFrom(s, 1, 1, Len(s) + 1, <<>>)

\* build_stripped_splitlines(content): the list of lines handed to validate
build_stripped_splitlines(s) == SplitFrom(s, trimmed(s), trimmed(s), trimmed_end(s), <<>>)

\* ---- the parse as a state machine ----
VARIABLES
  variant,    \* "baseline" (src/m3u8/_m3u8_parser.c) or "optimized" (src/unnamed/part_000)
  strict,     \* the strict argument
  hook,       \* whether a custom_tags_parser is supplied
  lines,      \* the lines of the input read so far, blank ones included
  pc,         \* "validate", "loop", "returned" or "error"
  lineno,     \* the line counter of the main loop
  data,       \* the Document being built
  state,      \* the ParseState
  ctx,        \* the shadow flags of ParseContext (optimized variant)
  err,        \* the exception the parse ended with
  result,     \* <<>> or <<the Document returned to the caller>>
  trace,      \* the hook calls and default dispatches made, in order
  hookEdits,  \* how many times the hook has changed a flag of the ParseState
  input,      \* the characters of the content argument (the line walk)
  saveptr,    \* where the line walk goes on in input
  validated,  \* the line lists that version_matching.validate was called with
  limit,      \* the number of lines of the longest input of the run
  previous,   \* <<>> or <<the call of m3u8_parse completed before this one>>
  observed,   \* what the loop held after each non-blank line, and at the end
  tok         \* the frame of an attribute tokenizer run on its own, or NoTok

vars == <<variant, strict, hook, lines, pc, lineno, data, state, ctx, err, result,
          trace, hookEdits, input, saveptr, validated, limit, previous,
          observed, tok>>

\* no tokenizer runs on its own
NoTok == [kind |-> "none"]

NoError == [exc |-> "none"]

\* data and state before m3u8_parse has created them
NotCreated == <<>>

InitWith(variants, stricts, hooks) ==
  /\ variant \in variants
  /\ strict \in stricts
  /\ hook \in hooks
  /\ lines = <<>>
  /\ pc = IF strict THEN "validate" ELSE "loop"
  /\ lineno = 0
  /\ data = IF strict THEN NotCreated ELSE init_parse_data
  /\ state = IF strict THEN NotCreated ELSE init_parse_state
  /\ ctx = [expect_segment |-> FALSE, expect_playlist |-> FALSE]
  /\ err = NoError
  /\ result = <<>>
  /\ trace = <<>>
  /\ hookEdits = 0
  /\ input = <<>>
  /\ saveptr = 0
  /\ validated = <<>>
  /\ limit = IF hook THEN MaxHookLines ELSE MaxLines
  /\ previous = <<>>
  /\ observed = <<>>
  /\ tok = NoTok

MoreInput == Len(lines) < limit

\* the line list handed to validate: the baseline builds it from content,
\* the optimized variant from the pointer trimmed into content
ValidateArg(v, s) ==
  IF v = "optimized" THEN build_stripped_splitlines(SubSeq(s, trimmed(s), Len(s)))
  ELSE build_stripped_splitlines(s)

\* strict mode: version_matching.validate is called once on the line list
\* before data and state are created; a non-empty list of violations is
\* raised as an Exception.  What validate answers is not decided by the
\* parser.
Validate ==
  /\ pc = "validate"
  /\ validated' = Append(validated, ValidateArg(variant, input))
  /\ \/ /\ pc' = "loop"
        /\ err' = err
        /\ data' = init_parse_data
        /\ state' = init_parse_state
     \/ /\ pc' = "error"
        /\ err' = [exc |-> "Exception"]
        /\ UNCHANGED <<data, state>>
  /\ UNCHANGED <<variant, strict, hook, lines, lineno, ctx, result, trace, hookEdits, input,
                 saveptr, limit, previous, observed, tok>>

\* the number the main loop gives to the line read next.  Baseline: strtok_r
\* never yields an empty token, so an empty line is not counted.  Optimized:
\* the whole input is trimmed first, so blank lines before the first
\* non-blank line are not counted, and every later line is.
LinenoAfter(v, ls, n, l) ==
  IF v = "baseline"
  THEN IF IsEmptyLine(l) THEN n ELSE n + 1
  ELSE IF IsBlankLine(l) /\ (\A i \in 1..Len(ls) : IsBlankLine(ls[i])) THEN n ELSE n + 1

Read(l) ==
  /\ pc = "loop"
  /\ MoreInput
  /\ lines' = Append(lines, l)
  /\ lineno' = LinenoAfter(variant, lines, lineno, l)
  /\ UNCHANGED <<variant, strict, hook, input, saveptr, validated, limit, previous>>

\* what the loop of the variant v holds once a line is handled: the two
\* flags that decide a bare line, whether a segment is pending, and how many
\* segments and playlists the Document has
Held(v, d, st, c) ==
  [error |-> FALSE,
   expect_segment |-> IF v = "optimized" THEN c.expect_segment
                      ELSE Has(st, "expect_segment") /\ st["expect_segment"] = Py_True,
   expect_playlist |-> IF v = "optimized" THEN c.expect_playlist
                       ELSE Has(st, "expect_playlist") /\ st["expect_playlist"] = Py_True,
   pending |-> Has(st, "segment"),
   segments |-> Len(d["segments"]),
   playlists |-> Len(d["playlists"])]
Failed == [error |-> TRUE]

Continue(d, st, c, tr) ==
  /\ pc' = "loop"
  /\ data' = d
  /\ state' = st
  /\ ctx' = c
  /\ trace' = tr
  /\ observed' = Append(observed, Held(variant, d, st, c))
  /\ tok' = tok
  /\ UNCHANGED <<err, result>>

\* an exception is set, and the Document built so far is handed back
Abort_partial(e, tr) ==
  /\ pc' = "error"
  /\ err' = e
  /\ trace' = tr
  /\ result' = <<data>>
  /\ observed' = Append(observed, Failed)
  /\ tok' = tok
  /\ UNCHANGED <<data, state, ctx>>

\* an exception leaves m3u8_parse: data and state are released, NULL is returned
Abort(e, tr) ==
  /\ pc' = "error"
  /\ err' = e
  /\ trace' = tr
  /\ observed' = Append(observed, Failed)
  /\ tok' = tok
  /\ UNCHANGED <<data, state, ctx, result>>

HookEvent(i, n, ret) == [ev |-> "hook", i |-> i, lineno |-> n, ret |-> ret]
DispatchEvent(i, n) == [ev |-> "dispatch", i |-> i, lineno |-> n]

\* "Skip empty lines"
BlankLine(l) ==
  /\ IsBlankLine(l)
  /\ Read(l)
  /\ UNCHANGED <<pc, data, state, ctx, err, result, trace, hookEdits, observed, tok>>

\* what follows a handler: the loop goes on, or its exception leaves m3u8_parse
AfterDispatch(r, c, tr) ==
  IF r.rc = 0 THEN Continue(r.data, r.state, c, tr) ELSE Abort(r.exc, tr)

\* the default handling of a '#' line, from the Document d and ParseState st
DefaultTag(l, d, st, c, tr) ==
  \E content \in PayloadAt(l) :
    AfterDispatch(Dispatch(variant, l, content, d, st, lineno', strict),
                  IF variant = "optimized" THEN ShadowAfterTag(l, c) ELSE c,
                  Append(tr, DispatchEvent(Len(lines'), lineno')))

\* a '#' line when no custom_tags_parser is supplied
TagLine(l) ==
  /\ IsTagLine(l)
  /\ ~hook
  /\ Read(l)
  /\ DefaultTag(l, data, state, ctx, trace)
  /\ UNCHANGED hookEdits

\* what the custom_tags_parser may do to the two flags of the ParseState it
\* is handed
HookEditKinds == {"none", "seg_on", "seg_off", "pl_on", "pl_off"}
ApplyHookEdit(st, e) ==
  CASE e = "none" -> st
    [] e = "seg_on" -> PyDict_SetItem(st, "expect_segment", Py_True)
    [] e = "seg_off" -> PyDict_SetItem(st, "expect_segment", Py_False)
    [] e = "pl_on" -> PyDict_SetItem(st, "expect_playlist", Py_True)
    [] e = "pl_off" -> PyDict_SetItem(st, "expect_playlist", Py_False)

sync_shadow_to_dict(c, st) ==
  PyDict_SetItem(PyDict_SetItem(st, "expect_segment", PyBool(c.expect_segment)),
                 "expect_playlist", PyBool(c.expect_playlist))

\* only expect_segment is read back from the ParseState
sync_shadow_from_dict_segment_only(st) ==
  [expect_segment |-> Has(st, "expect_segment") /\ st["expect_segment"] = Py_True,
   expect_playlist |-> FALSE]

sync_shadow_from_dict(st) ==
  [expect_segment |-> Has(st, "expect_segment") /\ st["expect_segment"] = Py_True,
   expect_playlist |-> Has(st, "expect_playlist") /\ st["expect_playlist"] = Py_True]

\* the default handling runs whatever the custom_tags_parser returned
AfterHook_ignores_truth(l, outcome, st, c, tr) ==
  CASE outcome = "raise" -> Abort([exc |-> "HookError"], tr)
    [] outcome \in {"true", "false"} -> DefaultTag(l, data, st, c, tr)

\* what follows the call of the custom_tags_parser: its exception leaves
\* m3u8_parse, a truthy result ends the handling of the line, a falsy one
\* goes on to the default handling
AfterHook(l, outcome, st, c, tr) ==
  CASE outcome = "raise" -> Abort([exc |-> "HookError"], tr)
    [] outcome = "true" -> Continue(data, st, c, tr)
    [] outcome = "false" -> DefaultTag(l, data, st, c, tr)

\* a '#' line when a custom_tags_parser is supplied: the hook is called with
\* the line, its number, the Document and the ParseState
HookLine(l) ==
  /\ IsTagLine(l)
  /\ hook
  /\ Read(l)
  /\ \E outcome \in {"raise", "true", "false"}, e \in HookEditKinds :
       /\ e # "none" => (hookEdits < MaxHookEdits /\ outcome # "raise")
       /\ hookEdits' = IF e = "none" THEN hookEdits ELSE hookEdits + 1
       /\ LET st0 == IF variant = "optimized" THEN sync_shadow_to_dict(ctx, state) ELSE state
              st1 == ApplyHookEdit(st0, e)
              c1 == IF variant = "optimized" THEN sync_shadow_from_dict(st1) ELSE ctx
          IN AfterHook(l, outcome, st1, c1,
                       Append(trace, HookEvent(Len(lines'), lineno', outcome)))

\* the flags that decide what a bare line is
ExpectSegment == IF variant = "optimized" THEN ctx.expect_segment
                 ELSE Has(state, "expect_segment") /\ state["expect_segment"] = Py_True
ExpectPlaylist == IF variant = "optimized" THEN ctx.expect_playlist
                  ELSE Has(state, "expect_playlist") /\ state["expect_playlist"] = Py_True

\* a line that does not start with '#': segment URI, playlist URI, or neither
BareLine(l) ==
  /\ IsBareLine(l)
  /\ Read(l)
  /\ UNCHANGED hookEdits
  /\ LET uri == strip(l.body)
         tr1 == Append(trace, DispatchEvent(Len(lines'), lineno'))
     IN IF ExpectSegment
        THEN LET r == parse_ts_chunk(uri, data, state)
             IN IF r.rc = 0
                THEN Continue(r.data, r.state, [ctx EXCEPT !.expect_segment = FALSE], tr1)
                ELSE Abort(r.exc, tr1)
        ELSE IF ExpectPlaylist
        THEN LET r == parse_variant_playlist(uri, data, state)
             IN Continue(r.data, r.state, [ctx EXCEPT !.expect_playlist = FALSE], tr1)
        ELSE IF strict
        THEN Abort(raise_parse_error(lineno', l), tr1)
        ELSE Continue(data, state, ctx, tr1)

\* the end of the input with the pending segment left behind
EndOfInput_drops_pending ==
  /\ pc = "loop"
  /\ pc' = "returned"
  /\ result' = <<data>>
  /\ observed' = Append(observed, Held(variant, data, state, ctx))
  /\ tok' = tok
  /\ UNCHANGED <<variant, strict, hook, lines, lineno, data, state, ctx, err, trace, hookEdits,
                 input, saveptr, validated, limit, previous>>

\* the input is exhausted: a pending segment is appended and the Document returned
EndOfInput ==
  /\ pc = "loop"
  /\ pc' = "returned"
  /\ data' = IF Has(state, "segment")
             THEN PyDict_SetItem(data, "segments", Append(data["segments"], state["segment"]))
             ELSE data
  /\ result' = <<data'>>
  /\ observed' = Append(observed, Held(variant, data', state, ctx))
  /\ tok' = tok
  /\ UNCHANGED <<variant, strict, hook, lines, lineno, state, ctx, err, trace, hookEdits,
                 input, saveptr, validated, limit, previous>>

\* the record of a completed call: its arguments, what validate answered,
\* and what the call handed back
Completed ==
  [variant |-> variant, strict |-> strict, lines |-> lines,
   rejected |-> err = [exc |-> "Exception"], err |-> err, result |-> result,
   observed |-> observed]

\* the caller calls m3u8_parse again, with the strict argument s: the locals
\* of the call before are gone, data and state are created anew
Invoke(s) ==
  /\ pc \in {"returned", "error"}
  /\ previous' = <<Completed>>
  /\ strict' = s
  /\ lines' = <<>>
  /\ pc' = IF s THEN "validate" ELSE "loop"
  /\ lineno' = 0
  /\ data' = IF s THEN NotCreated ELSE init_parse_data
  /\ state' = IF s THEN NotCreated ELSE init_parse_state
  /\ ctx' = [expect_segment |-> FALSE, expect_playlist |-> FALSE]
  /\ err' = NoError
  /\ result' = <<>>
  /\ trace' = <<>>
  /\ hookEdits' = 0
  /\ validated' = <<>>
  /\ observed' = <<>>
  /\ tok' = tok
  /\ UNCHANGED <<variant, hook, input, saveptr, limit>>

\* the content and strict flag of the call that has ended are handed to the
\* other build of the parser
InvokeOther ==
  /\ pc \in {"returned", "error"}
  /\ previous = <<>>
  /\ previous' = <<Completed>>
  /\ variant' = IF variant = "baseline" THEN "optimized" ELSE "baseline"
  /\ lines' = <<>>
  /\ pc' = IF strict THEN "validate" ELSE "loop"
  /\ lineno' = 0
  /\ data' = IF strict THEN NotCreated ELSE init_parse_data
  /\ state' = IF strict THEN NotCreated ELSE init_parse_state
  /\ ctx' = [expect_segment |-> FALSE, expect_playlist |-> FALSE]
  /\ err' = NoError
  /\ result' = <<>>
  /\ trace' = <<>>
  /\ hookEdits' = 0
  /\ validated' = <<>>
  /\ observed' = <<>>
  /\ tok' = tok
  /\ UNCHANGED <<strict, hook, input, saveptr, limit>>

\* l is the line that the call before read at the place the loop is at
Replayed(l) ==
  previous # <<>> =>
    (Len(lines) < Len(previous[1].lines) /\ previous[1].lines[Len(lines) + 1] = l)

\* the call before read no further line
ReplayedEnd == previous # <<>> => Len(lines) = Len(previous[1].lines)

\* ---- the line walk over the characters of the input ----
RECURSIVE SkipBreaks(_, _)
SkipBreaks(s, q) == IF q <= Len(s) /\ IsBreak(s[q]) THEN SkipBreaks(s, q + 1) ELSE q

\* strtok_r(NULL, "\n\r", &saveptr) with saveptr at q: the next token (from
\* start to stop - 1) and the new saveptr, or no token
strtok_r(s, q) ==
  LET b == SkipBreaks(s, q)
      e == ScanTo(s, b, {"LF", "CR"})
  IN [found |-> b <= Len(s), start |-> b, stop |-> e,
      save |-> IF e <= Len(s) THEN e + 1 ELSE e]

\* a non-empty stripped line reaches the hook and the dispatch with the
\* number n; start is where its line begins in input
LineEvent(start, n) == [ev |-> "line", start |-> start, lineno |-> n]

\* one iteration of the baseline main loop
StrtokLine ==
  /\ pc = "loop"
  /\ variant = "baseline"
  /\ LET t == strtok_r(input, saveptr)
     IN IF ~t.found
        THEN pc' = "returned" /\ UNCHANGED <<lineno, saveptr, trace>>
        ELSE /\ pc' = "loop"
             /\ lineno' = lineno + 1
             /\ saveptr' = t.save
             /\ trace' = IF strip(SubSeq(input, t.start, t.stop - 1)) = <<>> THEN trace
                         ELSE Append(trace, LineEvent(t.start, lineno'))
  /\ UNCHANGED <<variant, strict, hook, lines, data, state, ctx, err, result, hookEdits, input,
                 validated, limit, previous, observed, tok>>

\* the end of the line that starts at q: the first line break, or end
RECURSIVE EndOfLine(_, _, _)
EndOfLine(s, q, end) ==
  IF q < end /\ ~IsBreak(s[q]) THEN EndOfLine(s, q + 1, end) ELSE q

\* "Advance p past the newline(s)": CR LF is skipped as one break
PastBreak(s, eol, end) ==
  IF eol < end
  THEN IF s[eol] = "CR" /\ eol + 1 < end /\ s[eol + 1] = "LF" THEN eol + 2 ELSE eol + 1
  ELSE end

\* one iteration of the optimized main loop
WalkLine ==
  /\ pc = "loop"
  /\ variant = "optimized"
  /\ IF saveptr >= trimmed_end(input)
     THEN pc' = "returned" /\ UNCHANGED <<lineno, saveptr, trace>>
     ELSE /\ pc' = "loop"
          /\ lineno' = lineno + 1
          /\ saveptr' = PastBreak(input, EndOfLine(input, saveptr, trimmed_end(input)),
                                  trimmed_end(input))
          /\ trace' = IF strip(SubSeq(input, saveptr,
                                      EndOfLine(input, saveptr, trimmed_end(input)) - 1)) = <<>>
                      THEN trace
                      ELSE Append(trace, LineEvent(saveptr, lineno'))
  /\ UNCHANGED <<variant, strict, hook, lines, data, state, ctx, err, result, hookEdits, input,
                 validated, limit, previous, observed, tok>>

\* ---- the inputs ----
EmptyLine == Line("", FALSE, <<>>)
UriLine == Line("", FALSE, <<"a">>)
ExtinfLine == Line("#EXTINF", TRUE, <<"5", ",">>)
ExtinfNoComma == Line("#EXTINF", TRUE, <<"5">>)
ExtinfBadNoComma == Line("#EXTINF", TRUE, <<"x">>)
ByterangeLine == Line("#EXT-X-BYTERANGE", TRUE, <<"9">>)
BitrateLine == Line("#EXT-X-BITRATE", TRUE, <<"8">>)
PartLine == Line("#EXT-X-PART", TRUE, <<"DURATION", "=", "2">>)
PartThree == Line("#EXT-X-PART", TRUE, <<"DURATION", "=", "3", ",", "URI", "=", DQ, "p", DQ>>)
PartBadDuration == Line("#EXT-X-PART", TRUE, <<"DURATION", "=", "x">>)
StreamInfLine == Line("#EXT-X-STREAM-INF", TRUE, <<"BANDWIDTH", "=", "1">>)
UnknownTagLine == Line("#EXT-X-FOO", FALSE, <<>>)
KeyQuoted == Line("#EXT-X-KEY", TRUE, <<"METHOD", "=", "A", ",", "URI", "=", DQ, "k", DQ>>)
KeyUnquoted == Line("#EXT-X-KEY", TRUE, <<"METHOD", "=", "A", ",", "URI", "=", "k">>)
KeyOther == Line("#EXT-X-KEY", TRUE, <<"METHOD", "=", "A", ",", "URI", "=", DQ, "j", DQ>>)
KeyNone == Line("#EXT-X-KEY", TRUE, <<"METHOD", "=", "N">>)
DateLine == Line("#EXT-X-PROGRAM-DATE-TIME", TRUE, <<"T100">>)
DatePlain == Line("#EXT-X-PROGRAM-DATE-TIME", FALSE, <<>>)
DateBad == Line("#EXT-X-PROGRAM-DATE-TIME", TRUE, <<"x">>)

BandwidthBad == Line("#EXT-X-STREAM-INF", TRUE, <<"BANDWIDTH", "=", "x">>)
SequenceBad == Line("#EXT-X-MEDIA-SEQUENCE", TRUE, <<"x">>)
ProgramIdBad == Line("#EXT-X-STREAM-INF", TRUE, <<"PROGRAM", "-", "ID", "=", "x">>)
DateZero == Line("#EXT-X-PROGRAM-DATE-TIME", TRUE, <<"T0">>)
ExtinfThree == Line("#EXTINF", TRUE, <<"3", ",">>)
SequenceLine == Line("#EXT-X-MEDIA-SEQUENCE", TRUE, <<"7">>)
MediaLine == Line("#EXT-X-MEDIA", TRUE, <<"NAME", "=", DQ, "a", DQ>>)
StreamInfOther == Line("#EXT-X-STREAM-INF", TRUE, <<"BANDWIDTH", "=", "2">>)
IFrameLine == Line("#EXT-X-I-FRAME-STREAM-INF", TRUE, <<"BANDWIDTH", "=", "1", ",", "URI", "=", DQ, "a", DQ>>)
IFrameNoUri == Line("#EXT-X-I-FRAME-STREAM-INF", TRUE, <<"BANDWIDTH", "=", "1">>)
ImageLine == Line("#EXT-X-IMAGE-STREAM-INF", TRUE, <<"URI", "=", DQ, "a", DQ>>)
MapLine == Line("#EXT-X-MAP", TRUE, <<"URI", "=", DQ, "a", DQ>>)
MapOther == Line("#EXT-X-MAP", TRUE,
                 <<"URI", "=", DQ, "b", DQ, ",", "BYTERANGE", "=", DQ, "1", "@", "0", DQ>>)
MapEmpty == Line("#EXT-X-MAP", FALSE, <<>>)
DaterangeLine == Line("#EXT-X-DATERANGE", TRUE, <<"ID", "=", DQ, "a", DQ>>)
DaterangeOther == Line("#EXT-X-DATERANGE", TRUE,
                       <<"ID", "=", DQ, "b", DQ, ",", "DURATION", "=", "2">>)
ReportLine == Line("#EXT-X-RENDITION-REPORT", TRUE, <<"LAST", "-", "MSN", "=", "1">>)
SessionDataLine == Line("#EXT-X-SESSION-DATA", TRUE, <<"VALUE", "=", DQ, "a", DQ>>)
SessionKeyLine == Line("#EXT-X-SESSION-KEY", TRUE, <<"METHOD", "=", "A">>)
TilesLine == Line("#EXT-X-TILES", TRUE, <<"LAYOUT", "=", "1">>)

CueOutLine == Line("#EXT-X-CUE-OUT", TRUE, <<"DURATION", "=", "3", "0">>)
CueOutLower == Line("#EXT-X-CUE-OUT", TRUE, <<"duration", "=", "6">>)
CueOutBare == Line("#EXT-X-CUE-OUT", TRUE, <<"3", "0">>)
CueOutPlain == Line("#EXT-X-CUE-OUT", FALSE, <<>>)
CueOutLong == Line("#EXT-X-CUE-OUT", TRUE,
                   <<"CUE", "=", DQ, "payload1024", DQ, ",", "DURATION", "=", "3", "0">>)
CueSpanLine == Line("#EXT-X-CUE-SPAN", FALSE, <<>>)
CueOutCue == Line("#EXT-X-CUE-OUT", TRUE, <<"CUE", "=", DQ, "a", DQ, ",", "DURATION", "=", "3">>)
CueOutContLine == Line("#EXT-X-CUE-OUT-CONT", TRUE, <<"2", "/", "9">>)
CueOutContScte == Line("#EXT-X-CUE-OUT-CONT", TRUE, <<"SCTE35", "=", DQ, "b", DQ>>)
OatclsLine == Line("#EXT-OATCLS-SCTE35", TRUE, <<"o">>)
AssetLine == Line("#EXT-X-ASSET", TRUE, <<"ID", "=", "1">>)
OatclsOther == Line("#EXT-OATCLS-SCTE35", TRUE, <<"p">>)
OatclsPlain == Line("#EXT-OATCLS-SCTE35", FALSE, <<>>)

SequenceNoColon == Line("#EXT-X-MEDIA-SEQUENCE", FALSE, <<>>)

DiscontinuityLine == Line("#EXT-X-DISCONTINUITY", FALSE, <<>>)
CueInLine == Line("#EXT-X-CUE-IN", FALSE, <<>>)
GapLine == Line("#EXT-X-GAP", FALSE, <<>>)
BlackoutLine == Line("#EXT-X-BLACKOUT", TRUE, <<"a">>)
BlackoutPlain == Line("#EXT-X-BLACKOUT", FALSE, <<>>)

\* the feed of the main specification
CoreLines == {EmptyLine, UriLine, ExtinfLine, ExtinfNoComma, ExtinfBadNoComma, ByterangeLine,
              BitrateLine, PartLine, StreamInfLine, UnknownTagLine}

Init == InitWith({"baseline", "optimized"}, BOOLEAN, {FALSE})

Next ==
  \/ Validate
  \/ \E l \in CoreLines : BlankLine(l)
  \/ \E l \in CoreLines : TagLine(l)
  \/ \E l \in CoreLines : BareLine(l)
  \/ EndOfInput

Spec == Init /\ [][Next]_vars

\* key tags and segments, lenient mode
KeyLines == {KeyQuoted, KeyUnquoted, KeyOther, KeyNone, ExtinfLine, UriLine}

InitKeys == InitWith({"baseline", "optimized"}, {FALSE}, {FALSE})

NextKeys ==
  \/ \E l \in KeyLines : TagLine(l)
  \/ \E l \in KeyLines : BareLine(l)
  \/ EndOfInput

SpecKeys == InitKeys /\ [][NextKeys]_vars

\* malformed tokens, lenient mode
LenientLines == {UriLine, ExtinfLine, ExtinfBadNoComma, PartLine, PartBadDuration, DateLine,
                 DateBad, BandwidthBad, SequenceBad, ProgramIdBad}

InitLenient == InitWith({"baseline", "optimized"}, {FALSE}, {FALSE})

NextLenient ==
  \/ \E l \in LenientLines : TagLine(l)
  \/ \E l \in LenientLines : BareLine(l)
  \/ EndOfInput

SpecLenient == InitLenient /\ [][NextLenient]_vars

\* a custom_tags_parser is supplied
HookLines == {EmptyLine, UriLine, ExtinfLine, ExtinfNoComma, UnknownTagLine}

InitHook == InitWith({"baseline", "optimized"}, BOOLEAN, {TRUE})

NextHook ==
  \/ Validate
  \/ \E l \in HookLines : BlankLine(l)
  \/ \E l \in HookLines : HookLine(l)
  \/ \E l \in HookLines : BareLine(l)
  \/ EndOfInput

SpecHook == InitHook /\ [][NextHook]_vars

\* the line walk alone, over every input of at most MaxContent characters
Inputs == UNION {[1..n -> Chars] : n \in 0..MaxContent}

InitLines ==
  /\ variant \in {"baseline", "optimized"}
  /\ strict = FALSE
  /\ hook = FALSE
  /\ lines = <<>>
  /\ pc = "loop"
  /\ lineno = 0
  /\ data = init_parse_data
  /\ state = init_parse_state
  /\ ctx = [expect_segment |-> FALSE, expect_playlist |-> FALSE]
  /\ err = NoError
  /\ result = <<>>
  /\ trace = <<>>
  /\ hookEdits = 0
  /\ input \in Inputs
  /\ saveptr = IF variant = "optimized" THEN trimmed(input) ELSE 1
  /\ validated = <<>>
  /\ limit = IF hook THEN MaxHookLines ELSE MaxLines
  /\ previous = <<>>
  /\ observed = <<>>
  /\ tok = NoTok

NextLines == StrtokLine \/ WalkLine

SpecLines == InitLines /\ [][NextLines]_vars

\* strict and lenient parses of every input of at most MaxContent
\* characters: the validation and the line walk
InitValidate ==
  /\ variant \in {"baseline", "optimized"}
  /\ strict \in BOOLEAN
  /\ hook = FALSE
  /\ lines = <<>>
  /\ pc = IF strict THEN "validate" ELSE "loop"
  /\ lineno = 0
  /\ data = IF strict THEN NotCreated ELSE init_parse_data
  /\ state = IF strict THEN NotCreated ELSE init_parse_state
  /\ ctx = [expect_segment |-> FALSE, expect_playlist |-> FALSE]
  /\ err = NoError
  /\ result = <<>>
  /\ trace = <<>>
  /\ hookEdits = 0
  /\ input \in Inputs
  /\ saveptr = IF variant = "optimized" THEN trimmed(input) ELSE 1
  /\ validated = <<>>
  /\ limit = IF hook THEN MaxHookLines ELSE MaxLines
  /\ previous = <<>>
  /\ observed = <<>>
  /\ tok = NoTok

NextValidate == Validate \/ StrtokLine \/ WalkLine

SpecValidate == InitValidate /\ [][NextValidate]_vars

\* media and variant playlists: the lines that open a segment or a playlist,
\* the bare line that resolves them, and EXT-X-MEDIA-SEQUENCE
VariantLines == {UriLine, ExtinfLine, ByterangeLine, StreamInfLine, SequenceLine, SequenceBad}

InitVariant == InitWith({"baseline", "optimized"}, BOOLEAN, {FALSE})

NextVariant ==
  \/ Validate
  \/ \E l \in VariantLines : TagLine(l)
  \/ \E l \in VariantLines : BareLine(l)
  \/ EndOfInput

SpecVariant == InitVariant /\ [][NextVariant]_vars

\* lenient parses of up to MaxDateLines lines that carry the program date
\* time: the tag, segments of two durations, and a part
DateLines == {DateLine, DateZero, ExtinfLine, ExtinfThree, PartLine, UriLine}

InitDates ==
  /\ variant \in {"baseline", "optimized"}
  /\ strict = FALSE
  /\ hook = FALSE
  /\ lines = <<>>
  /\ pc = "loop"
  /\ lineno = 0
  /\ data = init_parse_data
  /\ state = init_parse_state
  /\ ctx = [expect_segment |-> FALSE, expect_playlist |-> FALSE]
  /\ err = NoError
  /\ result = <<>>
  /\ trace = <<>>
  /\ hookEdits = 0
  /\ input = <<>>
  /\ saveptr = 0
  /\ validated = <<>>
  /\ limit = MaxDateLines
  /\ previous = <<>>
  /\ observed = <<>>
  /\ tok = NoTok

NextDates ==
  \/ \E l \in DateLines : TagLine(l)
  \/ \E l \in DateLines : BareLine(l)
  \/ EndOfInput

SpecDates == InitDates /\ [][NextDates]_vars

\* lenient parses of the lines that feed the collections of the Document
CollectionLines == {UriLine, ExtinfLine, StreamInfLine, MediaLine, IFrameLine, ImageLine,
                    MapLine, ReportLine, SessionDataLine, SessionKeyLine, TilesLine}

InitCollections == InitWith({"baseline", "optimized"}, {FALSE}, {FALSE})

NextCollections ==
  \/ \E l \in CollectionLines : TagLine(l)
  \/ \E l \in CollectionLines : BareLine(l)
  \/ EndOfInput

SpecCollections == InitCollections /\ [][NextCollections]_vars

\* ad cues: cue tags of several shapes around plain segments, lenient mode
CueLines == {CueOutLine, CueOutLower, CueOutPlain, CueOutLong, CueSpanLine, ExtinfLine,
             UriLine}

InitCues ==
  /\ variant \in {"baseline", "optimized"}
  /\ strict = FALSE
  /\ hook = FALSE
  /\ lines = <<>>
  /\ pc = "loop"
  /\ lineno = 0
  /\ data = init_parse_data
  /\ state = init_parse_state
  /\ ctx = [expect_segment |-> FALSE, expect_playlist |-> FALSE]
  /\ err = NoError
  /\ result = <<>>
  /\ trace = <<>>
  /\ hookEdits = 0
  /\ input = <<>>
  /\ saveptr = 0
  /\ validated = <<>>
  /\ limit = MaxCueLines
  /\ previous = <<>>
  /\ observed = <<>>
  /\ tok = NoTok

NextCues ==
  \/ \E l \in CueLines : TagLine(l)
  \/ \E l \in CueLines : BareLine(l)
  \/ EndOfInput

SpecCues == InitCues /\ [][NextCues]_vars

\* calls of m3u8_parse one after the other, without a custom_tags_parser
CallLines == {SequenceLine, SequenceNoColon, ExtinfLine, UriLine, UnknownTagLine}

InitCalls ==
  /\ variant \in {"baseline", "optimized"}
  /\ strict \in BOOLEAN
  /\ hook = FALSE
  /\ lines = <<>>
  /\ pc = IF strict THEN "validate" ELSE "loop"
  /\ lineno = 0
  /\ data = IF strict THEN NotCreated ELSE init_parse_data
  /\ state = IF strict THEN NotCreated ELSE init_parse_state
  /\ ctx = [expect_segment |-> FALSE, expect_playlist |-> FALSE]
  /\ err = NoError
  /\ result = <<>>
  /\ trace = <<>>
  /\ hookEdits = 0
  /\ input = <<>>
  /\ saveptr = 0
  /\ validated = <<>>
  /\ limit = MaxCallLines
  /\ previous = <<>>
  /\ observed = <<>>
  /\ tok = NoTok

NextCalls ==
  \/ Validate
  \/ \E l \in CallLines : TagLine(l)
  \/ \E l \in CallLines : BareLine(l)
  \/ EndOfInput
  \/ \E s \in BOOLEAN : Invoke(s)

SpecCalls == InitCalls /\ [][NextCalls]_vars

\* the two builds on the same content, one after the other
BothLines == {EmptyLine, UriLine, ExtinfLine, ExtinfNoComma, ByterangeLine, StreamInfLine,
              PartLine, PartBadDuration, DateLine, UnknownTagLine}

InitBoth ==
  /\ variant \in {"baseline", "optimized"}
  /\ strict \in BOOLEAN
  /\ hook = FALSE
  /\ lines = <<>>
  /\ pc = IF strict THEN "validate" ELSE "loop"
  /\ lineno = 0
  /\ data = IF strict THEN NotCreated ELSE init_parse_data
  /\ state = IF strict THEN NotCreated ELSE init_parse_state
  /\ ctx = [expect_segment |-> FALSE, expect_playlist |-> FALSE]
  /\ err = NoError
  /\ result = <<>>
  /\ trace = <<>>
  /\ hookEdits = 0
  /\ input = <<>>
  /\ saveptr = 0
  /\ validated = <<>>
  /\ limit = MaxBothLines
  /\ previous = <<>>
  /\ observed = <<>>
  /\ tok = NoTok

NextBoth ==
  \/ Validate
  \/ \E l \in BothLines : Replayed(l) /\ BlankLine(l)
  \/ \E l \in BothLines : Replayed(l) /\ TagLine(l)
  \/ \E l \in BothLines : Replayed(l) /\ BareLine(l)
  \/ ReplayedEnd /\ EndOfInput
  \/ InvokeOther

SpecBoth == InitBoth /\ [][NextBoth]_vars

\* markers: the tags that mark the next segment, around segments and parts
MarkerLines == {DiscontinuityLine, CueInLine, GapLine, BlackoutLine, BlackoutPlain, PartLine,
                ExtinfLine, UriLine}

InitMarkers ==
  /\ variant \in {"baseline", "optimized"}
  /\ strict = FALSE
  /\ hook = FALSE
  /\ lines = <<>>
  /\ pc = "loop"
  /\ lineno = 0
  /\ data = init_parse_data
  /\ state = init_parse_state
  /\ ctx = [expect_segment |-> FALSE, expect_playlist |-> FALSE]
  /\ err = NoError
  /\ result = <<>>
  /\ trace = <<>>
  /\ hookEdits = 0
  /\ input = <<>>
  /\ saveptr = 0
  /\ validated = <<>>
  /\ limit = MaxCarryLines
  /\ previous = <<>>
  /\ observed = <<>>
  /\ tok = NoTok

NextMarkers ==
  \/ \E l \in MarkerLines : TagLine(l)
  \/ \E l \in MarkerLines : BareLine(l)
  \/ EndOfInput

SpecMarkers == InitMarkers /\ [][NextMarkers]_vars

\* SCTE-35 and asset tags around segments
ScteLines == {CueOutCue, CueOutContLine, CueOutContScte, OatclsLine, AssetLine, CueSpanLine,
              ExtinfLine, UriLine}

NextScte ==
  \/ \E l \in ScteLines : TagLine(l)
  \/ \E l \in ScteLines : BareLine(l)
  \/ EndOfInput

SpecScte == InitMarkers /\ [][NextScte]_vars

\* EXT-OATCLS-SCTE35 after the tags that set the SCTE-35 value
OatclsLines == {CueOutCue, CueOutContScte, OatclsLine, OatclsOther, OatclsPlain, ExtinfLine,
                UriLine}

NextOatcls ==
  \/ \E l \in OatclsLines : TagLine(l)
  \/ \E l \in OatclsLines : BareLine(l)
  \/ EndOfInput

SpecOatcls == InitMarkers /\ [][NextOatcls]_vars

\* EXT-X-MAP with and without attributes, around segments
MapLines == {MapLine, MapOther, MapEmpty, ExtinfLine, UriLine}

NextMaps ==
  \/ \E l \in MapLines : TagLine(l)
  \/ \E l \in MapLines : BareLine(l)
  \/ EndOfInput

SpecMaps == InitMarkers /\ [][NextMaps]_vars

\* EXT-X-DATERANGE around parts and segments
RangeLines == {DaterangeLine, DaterangeOther, PartLine, ExtinfLine, UriLine}

NextRanges ==
  \/ \E l \in RangeLines : TagLine(l)
  \/ \E l \in RangeLines : BareLine(l)
  \/ EndOfInput

SpecRanges == InitMarkers /\ [][NextRanges]_vars

\* EXT-X-PART with and without a current program date time
PartLines == {DateLine, PartLine, PartThree, PartBadDuration, ExtinfLine, UriLine}

NextParts ==
  \/ \E l \in PartLines : TagLine(l)
  \/ \E l \in PartLines : BareLine(l)
  \/ EndOfInput

SpecParts == InitMarkers /\ [][NextParts]_vars

\* I-frame and image playlists among variant playlists and segments
IFrameLines == {IFrameLine, IFrameNoUri, ImageLine, StreamInfLine, ExtinfLine, UriLine}

NextIFrames ==
  \/ \E l \in IFrameLines : TagLine(l)
  \/ \E l \in IFrameLines : BareLine(l)
  \/ EndOfInput

SpecIFrames == InitCollections /\ [][NextIFrames]_vars

\* the scalar tags of the Document with numeric, non-numeric and no payload
ScalarTags ==
  {"#EXT-X-TARGETDURATION", "#EXT-X-MEDIA-SEQUENCE", "#EXT-X-DISCONTINUITY-SEQUENCE",
   "#EXT-X-VERSION"}

ScalarLines ==
  {Line(t, TRUE, b) : t \in ScalarTags, b \in {<<"7">>, <<"1", "2">>, <<"x">>}}
  \cup {Line(t, FALSE, <<>>) : t \in ScalarTags}

InitScalars ==
  /\ variant \in {"baseline", "optimized"}
  /\ strict \in BOOLEAN
  /\ hook = FALSE
  /\ lines = <<>>
  /\ pc = IF strict THEN "validate" ELSE "loop"
  /\ lineno = 0
  /\ data = IF strict THEN NotCreated ELSE init_parse_data
  /\ state = IF strict THEN NotCreated ELSE init_parse_state
  /\ ctx = [expect_segment |-> FALSE, expect_playlist |-> FALSE]
  /\ err = NoError
  /\ result = <<>>
  /\ trace = <<>>
  /\ hookEdits = 0
  /\ input = <<>>
  /\ saveptr = 0
  /\ validated = <<>>
  /\ limit = MaxScalarLines
  /\ previous = <<>>
  /\ observed = <<>>
  /\ tok = NoTok

NextScalars ==
  \/ Validate
  \/ \E l \in ScalarLines : TagLine(l)
  \/ EndOfInput

SpecScalars == InitScalars /\ [][NextScalars]_vars

\* EXT-X-PROGRAM-DATE-TIME with two timestamps and with none, around segments
StampLines == {DateLine, DateZero, DatePlain, ExtinfLine, UriLine}

NextStamps ==
  \/ \E l \in StampLines : TagLine(l)
  \/ \E l \in StampLines : BareLine(l)
  \/ EndOfInput

SpecStamps == InitDates /\ [][NextStamps]_vars

\* variant playlists: EXT-X-STREAM-INF tags, EXTINF and bare lines, both modes
PlaylistLines == {StreamInfLine, StreamInfOther, ExtinfLine, UriLine}

InitPlaylists == InitWith({"baseline", "optimized"}, BOOLEAN, {FALSE})

NextPlaylists ==
  \/ Validate
  \/ \E l \in PlaylistLines : TagLine(l)
  \/ \E l \in PlaylistLines : BareLine(l)
  \/ EndOfInput

SpecPlaylists == InitPlaylists /\ [][NextPlaylists]_vars

\* ---- the attribute tokenizers, one loop iteration at a time ----
TokenKinds == {"parse_attribute_list", "parse_attribute_list_raw", "parse_attributes_with_schema"}

\* the symbols of a fragment: a name or value, the separators, a quote, a blank
FragmentChars == {"URI", "=", ",", DQ, " "}
Fragments == UNION {[1..n -> FragmentChars] : n \in 0..MaxFragment}

\* the position after the value that begins at p3, right after '=': behind
\* the closing quote or at the end when it is quoted, else at the next ','
AfterValue(s, p3) ==
  IF p3 <= Len(s) /\ s[p3] \in {DQ, SQ}
  THEN IF ScanTo(s, p3 + 1, {s[p3]}) <= Len(s) THEN ScanTo(s, p3 + 1, {s[p3]}) + 1
       ELSE ScanTo(s, p3 + 1, {s[p3]})
  ELSE ScanTo(s, p3, {","})

SkipComma_stays(s, q) == q

\* "if (*p == ',') p++"
SkipComma(s, q) == IF q <= Len(s) /\ s[q] = "," THEN q + 1 ELSE q

\* one iteration of the baseline loop "while (*p)" from p0: where p is when
\* the iteration ends
AttributeEnd(s, p0) ==
  IF SkipSpaces(s, p0) > Len(s) THEN SkipSpaces(s, p0)
  ELSE IF ScanTo(s, SkipSpaces(s, p0), {"=", ","}) <= Len(s)
          /\ s[ScanTo(s, SkipSpaces(s, p0), {"=", ","})] = "="
  THEN SkipComma(s, AfterValue(s, ScanTo(s, SkipSpaces(s, p0), {"=", ","}) + 1))
  ELSE SkipComma(s, ScanTo(s, SkipSpaces(s, p0), {"=", ","}))

\* one iteration of the optimized loops "while (p < end)" from p0
AttributeEndRaw(s, p0) ==
  IF SkipSpacesAndCommas(s, p0) > Len(s) THEN SkipSpacesAndCommas(s, p0)
  ELSE IF ScanTo(s, SkipSpacesAndCommas(s, p0), {"=", ","}) <= Len(s)
          /\ s[ScanTo(s, SkipSpacesAndCommas(s, p0), {"=", ","})] = "="
  THEN AfterValue(s, ScanTo(s, SkipSpacesAndCommas(s, p0), {"=", ","}) + 1)
  ELSE ScanTo(s, SkipSpacesAndCommas(s, p0), {"=", ","})

TokenEnd(kind, s, p0) ==
  IF kind = "parse_attribute_list" THEN AttributeEnd(s, p0) ELSE AttributeEndRaw(s, p0)

\* the tokenizer kind on the fragment s from p0, attrs being built so far
Tokenize(kind, s, p0, attrs) ==
  CASE kind = "parse_attribute_list" -> parse_attribute_list_from(s, p0, attrs)
    [] kind = "parse_attribute_list_raw" -> parse_attribute_list_raw_from(s, p0, attrs)
    [] kind = "parse_attributes_with_schema" ->
         parse_attributes_with_schema_from(s, p0, x_map_parsers, attrs)

\* one iteration of a tokenizer's loop: it reads the characters from tok.p
\* up to where the iteration ends, and stores at most one attribute
TokenStep ==
  /\ pc = "tokens"
  /\ tok.p <= Len(tok.s)
  /\ tok' = [tok EXCEPT !.p = TokenEnd(tok.kind, tok.s, tok.p),
                        !.attrs = Tokenize(tok.kind,
                                           SubSeq(tok.s, 1, TokenEnd(tok.kind, tok.s, tok.p) - 1),
                                           tok.p, tok.attrs),
                        !.steps = tok.steps + 1]
  /\ UNCHANGED <<variant, strict, hook, lines, pc, lineno, data, state, ctx, err, result, trace,
                 hookEdits, input, saveptr, validated, limit, previous, observed>>

\* the loop condition fails: "return attrs"
TokenReturn ==
  /\ pc = "tokens"
  /\ tok.p > Len(tok.s)
  /\ pc' = "returned"
  /\ result' = <<tok.attrs>>
  /\ UNCHANGED <<variant, strict, hook, lines, lineno, data, state, ctx, err, trace,
                 hookEdits, input, saveptr, validated, limit, previous, observed, tok>>

\* a tokenizer called on a fragment, or the line walk on an input
InitTokens ==
  \/ /\ tok \in {[kind |-> k, s |-> s, p |-> 1, attrs |-> PyDict_New, steps |-> 0] :
                    k \in TokenKinds, s \in Fragments}
     /\ variant = IF tok.kind = "parse_attribute_list" THEN "baseline" ELSE "optimized"
     /\ strict = FALSE
     /\ hook = FALSE
     /\ lines = <<>>
     /\ pc = "tokens"
     /\ lineno = 0
     /\ data = init_parse_data
     /\ state = init_parse_state
     /\ ctx = [expect_segment |-> FALSE, expect_playlist |-> FALSE]
     /\ err = NoError
     /\ result = <<>>
     /\ trace = <<>>
     /\ hookEdits = 0
     /\ input = <<>>
     /\ saveptr = 1
     /\ validated = <<>>
     /\ limit = MaxLines
     /\ previous = <<>>
     /\ observed = <<>>
  \/ InitLines

NextTokens == TokenStep \/ TokenReturn \/ StrtokLine \/ WalkLine

SpecTokens == InitTokens /\ [][NextTokens]_vars

\* the two expectation flags among tags of every kind, blank lines and bare
\* lines, strict and lenient
FlagLines == {EmptyLine, UriLine, ExtinfLine, ByterangeLine, BitrateLine, PartLine, StreamInfLine,
              KeyQuoted, UnknownTagLine}

InitFlags == InitWith({"baseline", "optimized"}, BOOLEAN, {FALSE})

NextFlags ==
  \/ Validate
  \/ \E l \in FlagLines : BlankLine(l)
  \/ \E l \in FlagLines : TagLine(l)
  \/ \E l \in FlagLines : BareLine(l)
  \/ EndOfInput

SpecFlags == InitFlags /\ [][NextFlags]_vars

\* the three cue-out tags, with and without a DURATION, around segments,
\* lenient mode
CueFlagLines == {CueOutLine, CueOutPlain, CueOutContLine, CueSpanLine, ExtinfLine, UriLine}

NextCueFlags ==
  \/ \E l \in CueFlagLines : TagLine(l)
  \/ \E l \in CueFlagLines : BareLine(l)
  \/ EndOfInput

SpecCueFlags == InitMarkers /\ [][NextCueFlags]_vars

\* key tags, session key tags and segments, lenient mode
SessionKeyLines == {KeyQuoted, KeyOther, KeyNone, SessionKeyLine, ExtinfLine, UriLine}

NextSessionKeys ==
  \/ \E l \in SessionKeyLines : TagLine(l)
  \/ \E l \in SessionKeyLines : BareLine(l)
  \/ EndOfInput

SpecSessionKeys == InitKeys /\ [][NextSessionKeys]_vars

\* the tags whose payload is read at a fixed offset behind the tag name: as
\* the tag name alone, with an empty payload and with the payload 7
FixedOffsetTags ==
  {"#EXT-X-TARGETDURATION", "#EXT-X-MEDIA-SEQUENCE", "#EXT-X-DISCONTINUITY-SEQUENCE",
   "#EXT-X-VERSION", "#EXTINF", "#EXT-X-BYTERANGE", "#EXT-X-BITRATE"}

FixedOffsetLines ==
  {Line(t, FALSE, <<>>) : t \in FixedOffsetTags}
  \cup {Line(t, TRUE, b) : t \in FixedOffsetTags, b \in {<<>>, <<"7">>}}
  \cup {UriLine}

NextFixedOffset ==
  \/ Validate
  \/ \E l \in FixedOffsetLines : TagLine(l)
  \/ \E l \in FixedOffsetLines : BareLine(l)
  \/ EndOfInput

SpecFixedOffset == InitScalars /\ [][NextFixedOffset]_vars

\* ---- properties ----
\* the step reads the line l
ReadsLine(l) == lines' = Append(lines, l)

\* the number of blank lines before the first non-blank line of ls
RECURSIVE LeadingBlank(_)
LeadingBlank(ls) ==
  IF ls # <<>> /\ IsBlankLine(Head(ls)) THEN 1 + LeadingBlank(Tail(ls)) ELSE 0

\* the 1-based index of the last line of ls in the list of lines of the
\* trimmed input
RefLineno(ls) == Len(ls) - LeadingBlank(ls)

\* the number of bare lines of ls that follow a line with one of tags that no
\* earlier bare line has resolved
RECURSIVE BareAfterContext(_, _, _)
BareAfterContext(ls, tags, open) ==
  IF ls = <<>> THEN 0
  ELSE IF IsBareLine(Head(ls))
  THEN (IF open THEN 1 ELSE 0) + BareAfterContext(Tail(ls), tags, FALSE)
  ELSE BareAfterContext(Tail(ls), tags, open \/ Head(ls).tag \in tags)

PendingAtEnd == IF Has(state, "segment") THEN 1 ELSE 0

ExpectedKey(l) ==
  CASE l \in {KeyQuoted, KeyUnquoted} -> PyDict([method |-> PyStr(<<"A">>), uri |-> PyStr(<<"k">>)])
    [] l = KeyOther -> PyDict([method |-> PyStr(<<"A">>), uri |-> PyStr(<<"j">>)])
    [] l = KeyNone -> PyDict([method |-> PyStr(<<"N">>)])

\* the distinct key records of the EXT-X-KEY lines of ls, in the order of
\* their first occurrence
RECURSIVE FirstOccurrences(_, _)
FirstOccurrences(ls, acc) ==
  IF ls = <<>> THEN acc
  ELSE IF Head(ls).tag = "#EXT-X-KEY"
          /\ ~\E i \in 1..Len(acc) : acc[i] = ExpectedKey(Head(ls))
  THEN FirstOccurrences(Tail(ls), Append(acc, ExpectedKey(Head(ls))))
  ELSE FirstOccurrences(Tail(ls), acc)

IsKeyRecord(k) == k # PyNone
NoneCount(keys) == Cardinality({i \in 1..Len(keys) : keys[i] = PyNone})

\* C2: the key records of Document.keys are, in every state, the distinct key
\* records of the EXT-X-KEY lines read so far in the order of their first
\* occurrence: no two entries are equal, equal tags give one entry, distinct
\* tags one entry each, and a repeated key neither moves nor duplicates an
\* entry.
C2_KeysDeduplicated == SelectSeq(data["keys"], IsKeyRecord) = FirstOccurrences(lines, <<>>)

\* a key, another key, then the first key twice more (once unquoted): two entries
C2_Witness ==
  /\ lines = <<KeyQuoted, KeyOther, KeyUnquoted, KeyQuoted>>
  /\ data["keys"] = <<ExpectedKey(KeyQuoted), ExpectedKey(KeyOther)>>

\* the step appends a segment for a bare line (not the flush at the end)
FinalizesSegment == pc' = "loop" /\ Len(data'["segments"]) = Len(data["segments"]) + 1

\* C3: Document.keys never holds the None sentinel more than once, and a step
\* adds the sentinel exactly when it finalizes a segment while the ParseState
\* holds no current key and the sentinel is not there yet.
C3_NoneKeySentinel ==
  [][/\ NoneCount(data'["keys"]) <= 1
     /\ (NoneCount(data'["keys"]) > NoneCount(data["keys"]))
          <=> (FinalizesSegment /\ ~Has(state, "current_key") /\ NoneCount(data["keys"]) = 0)]_vars

\* two unencrypted segments have been finalized and the sentinel is there once
C3_Witness ==
  /\ lines = <<ExtinfLine, UriLine, ExtinfLine, UriLine>>
  /\ Len(data["segments"]) = 2
  /\ ~Has(state, "current_key")
  /\ data["keys"] = <<PyNone>>

\* the step ends the parse with the ParseError of the line l, numbered by its
\* index in the list of lines of the trimmed input, and touches neither the
\* Document nor the ParseState
StrictError(l) ==
  /\ pc' = "error"
  /\ err' = raise_parse_error(RefLineno(lines'), l)
  /\ data' = data /\ state' = state /\ result' = <<>>

\* the step goes on with the Document, the ParseState and the shadow flags as
\* they were
Ignored == pc' = "loop" /\ data' = data /\ state' = state /\ ctx' = ctx

\* the pending segment of the ParseState, empty when there is none
PendingSegment == IF Has(state, "segment") THEN state["segment"].dict ELSE PyDict_New

\* the duration an EXTINF payload without comma stands for, 0 when it is no number
ExpectedDuration(l) == IF l = ExtinfNoComma THEN 5 ELSE 0

\* C4: reading an EXTINF line whose payload has no comma, the strict parse
\* ends with a ParseError carrying that line's number and no effect on the
\* pending segment; the lenient parse opens or reuses the pending segment,
\* gives it the parsed duration (0 when it does not parse) and an empty
\* title, and sets expect_segment.
C4_ExtinfNoComma ==
  [][\A l \in {ExtinfNoComma, ExtinfBadNoComma} :
       ReadsLine(l) =>
         IF strict THEN StrictError(l)
         ELSE /\ pc' = "loop"
              /\ data' = data
              /\ state' = PyDict_SetItem(
                             PyDict_SetItem(state, "segment",
                               PyDict(PyDict_SetItem(
                                 PyDict_SetItem(PendingSegment, "duration",
                                                PyFloat(ExpectedDuration(l))),
                                 "title", PyStr(<<>>)))),
                             "expect_segment", Py_True)
              /\ ExpectSegment']_vars

\* C5: reading a '#' line whose tag is not in the dispatch chain, the strict
\* parse ends with a ParseError carrying the line's number and text; the
\* lenient parse leaves the Document and the ParseState, both expect flags and
\* the pending segment included, as they were.
C5_UnknownTag ==
  [][ReadsLine(UnknownTagLine) => IF strict THEN StrictError(UnknownTagLine) ELSE Ignored]_vars

\* C6: reading a bare line while neither expect_segment nor expect_playlist is
\* set, the strict parse ends with a ParseError carrying the line's number;
\* the lenient parse leaves the Document and the ParseState as they were, a
\* pending segment of EXT-X-PART or EXT-X-BITRATE included.
C6_UnexpectedBareLine ==
  [][(ReadsLine(UriLine) /\ ~ExpectSegment /\ ~ExpectPlaylist) =>
       IF strict THEN StrictError(UriLine) ELSE Ignored]_vars

\* C7: in lenient mode without a hook the parse never ends with an error,
\* whatever malformed token it reads.
C7_LenientNeverFails == (~strict /\ ~hook) => pc # "error"

\* the number of line breaks of s from position a up to position b - 1, a
\* CR LF pair being one break
RECURSIVE BreaksBetween(_, _, _)
BreaksBetween(s, a, b) ==
  IF a >= b THEN 0
  ELSE IF s[a] = "CR" /\ a + 1 <= Len(s) /\ s[a + 1] = "LF"
  THEN 1 + BreaksBetween(s, a + 2, b)
  ELSE (IF IsBreak(s[a]) THEN 1 ELSE 0) + BreaksBetween(s, a + 1, b)

\* the 1-based index, in the list obtained by trimming s and splitting it on
\* line breaks, of the line that begins at position start
RefNumber(s, start) == 1 + BreaksBetween(s, trimmed(s), start)

\* C9: in both variants, the number given to a line that reaches the hook or
\* a ParseError is the 1-based index of the line in the list obtained by
\* trimming the whole input and splitting it on line breaks, CR LF being one
\* break.
C9_LineNumbers ==
  \A k \in 1..Len(trace) :
    trace[k].ev = "line" => trace[k].lineno = RefNumber(input, trace[k].start)

\* the hook returned a truthy value for the line of index i
HookTookLine(tr, i) ==
  \E p \in 1..Len(tr) : tr[p].ev = "hook" /\ tr[p].i = i /\ tr[p].ret = "true"

\* C8: a parse that has ended with an error takes no further step, and a step
\* that ends the parse with a ParseError does so in strict mode, for the line
\* it has just read (the last line dispatched or passed to the hook), after
\* no earlier line that is an unknown tag or a comma-less EXTINF went to its
\* default handler, and hands no Document to the caller.
C8_StrictErrorStops ==
  [][/\ pc # "error"
     /\ (pc' = "error" /\ err'.exc = "ParseError") =>
          /\ strict
          /\ err'.line = lines'[Len(lines')]
          /\ trace'[Len(trace')].ev = "dispatch"
          /\ \A p \in 1..Len(trace') : trace'[p].i <= Len(lines')
          /\ trace'[Len(trace')].i = Len(lines')
          /\ \A i \in 1..Len(lines) :
               lines[i] \in {UnknownTagLine, ExtinfNoComma} => HookTookLine(trace, i)
          /\ result' = <<>>]_vars

\* a strict parse with a hook has ended with the ParseError of its third
\* line, after the hook took an unknown tag
C8_Witness ==
  /\ hook /\ strict
  /\ pc = "error" /\ err.exc = "ParseError"
  /\ lines = <<UnknownTagLine, EmptyLine, ExtinfNoComma>>
  /\ result = <<>>

IsHookEvent(e) == e.ev = "hook"

\* the indices of the lines of ls that start with '#', in order
RECURSIVE TagIndicesFrom(_, _)
TagIndicesFrom(ls, i) ==
  IF i > Len(ls) THEN <<>>
  ELSE (IF IsTagLine(ls[i]) THEN <<i>> ELSE <<>>) \o TagIndicesFrom(ls, i + 1)

\* C10: with a hook supplied, the hook calls made so far are one call for
\* each '#' line read, in input order, and none for a blank or bare line; the
\* default handler of a '#' line runs only right after the hook call of that
\* line returned a falsy value; after a truthy return no default handler runs
\* for the line and the parse does not end with an error there.
C10_HookBeforeDefault ==
  hook =>
    /\ LET hs == SelectSeq(trace, IsHookEvent)
       IN [k \in 1..Len(hs) |-> hs[k].i] = TagIndicesFrom(lines, 1)
    /\ \A p \in 1..Len(trace) :
         (trace[p].ev = "dispatch" /\ IsTagLine(lines[trace[p].i])) =>
           /\ p > 1
           /\ trace[p - 1].ev = "hook"
           /\ trace[p - 1].i = trace[p].i
           /\ trace[p - 1].ret = "false"
    /\ \A p \in 1..Len(trace) :
         (trace[p].ev = "hook" /\ trace[p].ret = "true") =>
           IF p = Len(trace) THEN pc # "error" ELSE trace[p + 1].i > trace[p].i

\* a strict parse goes on after the hook took an unknown tag, and has run the
\* default handler of the next '#' line after the hook declined it
C10_Witness ==
  /\ hook /\ strict /\ pc = "loop"
  /\ lines = <<EmptyLine, UnknownTagLine, ExtinfLine>>
  /\ Len(trace) = 3
  /\ trace[1].ev = "hook" /\ trace[1].i = 2 /\ trace[1].ret = "true"
  /\ trace[2].ev = "hook" /\ trace[2].i = 3 /\ trace[2].ret = "false"
  /\ trace[3].ev = "dispatch" /\ trace[3].i = 3

\* the flag of the ParseState reads as true to the engine
FlagOf(st, k) == Has(st, k) /\ st[k] = Py_True

\* the C shadow flags say what the ParseState says
ShadowAgrees(c, st) ==
  /\ c.expect_segment = FlagOf(st, "expect_segment")
  /\ c.expect_playlist = FlagOf(st, "expect_playlist")

\* C11: with a hook supplied, in the optimized variant the shadow flags equal
\* the flags of the ParseState before and after every step of the main loop,
\* so the ParseState handed to the hook after sync_shadow_to_dict carries
\* the engine's flags unchanged; and in both variants a bare line is
\* resolved by the flags found in the ParseState, which are the ones the
\* last hook call left there: a segment when expect_segment is true,
\* otherwise a playlist when expect_playlist is true, otherwise neither.
C11_HookFlagsUsed ==
  [][(hook /\ pc = "loop") =>
       /\ variant = "optimized" =>
            /\ ShadowAgrees(ctx, state)
            /\ sync_shadow_to_dict(ctx, state) = state
            /\ pc' = "loop" => ShadowAgrees(ctx', state')
       /\ (\E l \in HookLines : IsBareLine(l) /\ ReadsLine(l)) =>
            IF FlagOf(state, "expect_segment")
            THEN /\ pc' = "loop" => Len(data'["segments"]) = Len(data["segments"]) + 1
                 /\ data'["playlists"] = data["playlists"]
            ELSE IF FlagOf(state, "expect_playlist")
            THEN /\ Len(data'["playlists"]) = Len(data["playlists"]) + 1
                 /\ data'["segments"] = data["segments"]
            ELSE /\ data'["playlists"] = data["playlists"]
                 /\ data'["segments"] = data["segments"]]_vars

\* the optimized variant has resolved a bare line as a playlist URI on the
\* strength of a flag that only the hook set, the hook having returned true
C11_Witness ==
  /\ hook /\ variant = "optimized" /\ pc = "loop"
  /\ lines = <<UnknownTagLine, UriLine>>
  /\ trace[1].ev = "hook" /\ trace[1].ret = "true"
  /\ hookEdits = 1
  /\ Len(data["playlists"]) = 1

\* the position of the first line break of t, or 0
FirstBreak(t) ==
  IF \E i \in 1..Len(t) : IsBreak(t[i])
  THEN CHOOSE i \in 1..Len(t) : IsBreak(t[i]) /\ \A j \in 1..(i - 1) : ~IsBreak(t[j])
  ELSE 0

\* t split on line breaks, CR LF being one break
RECURSIVE RefSplit(_)
RefSplit(t) ==
  IF FirstBreak(t) = 0 THEN <<t>>
  ELSE LET i == FirstBreak(t)
           w == IF t[i] = "CR" /\ i < Len(t) /\ t[i + 1] = "LF" THEN 2 ELSE 1
       IN <<SubSeq(t, 1, i - 1)>> \o RefSplit(SubSeq(t, i + w, Len(t)))

\* the line list of the trimmed content
RefLines(s) == RefSplit(SubSeq(s, trimmed(s), trimmed_end(s) - 1))

\* C12: a lenient parse never calls the validator; a strict parse calls it
\* once, with the line list of the trimmed content, before data and state
\* are created and before any line reaches the hook or the dispatch; when
\* the validator reports violations the parse has ended with that Exception,
\* with no Document created or returned and no line ever visited.
C12_ValidatorOnceFirst ==
  /\ ~strict => validated = <<>>
  /\ (strict /\ pc = "validate") =>
       validated = <<>> /\ data = NotCreated /\ state = NotCreated /\ trace = <<>> /\ lineno = 0
  /\ (strict /\ pc # "validate") => validated = <<RefLines(input)>>
  /\ (strict /\ pc \in {"loop", "returned"}) => data # NotCreated /\ state # NotCreated
  /\ pc = "error" =>
       /\ err = [exc |-> "Exception"]
       /\ data = NotCreated /\ result = <<>>
       /\ trace = <<>> /\ lineno = 0

\* a strict parse whose validator got three lines, the middle one empty, and
\* reported violations
C12_Witness ==
  /\ strict /\ pc = "error"
  /\ input = <<"#", "CR", "LF", "LF", "#">>
  /\ validated = <<<<<<"#">>, <<>>, <<"#">>>>>>

\* the collections of the Document
Collections ==
  {"segments", "playlists", "media", "iframe_playlists", "image_playlists", "tiles", "keys",
   "session_data", "session_keys", "rendition_reports", "segment_map"}

\* the tags whose handler appends to the collection, or opens the pending
\* segment or playlist that a bare line appends
TagsOf(c) ==
  CASE c = "segments" -> {"#EXTINF", "#EXT-X-BYTERANGE", "#EXT-X-BITRATE", "#EXT-X-PART"}
    [] c = "playlists" -> {"#EXT-X-STREAM-INF"}
    [] c = "media" -> {"#EXT-X-MEDIA"}
    [] c = "iframe_playlists" -> {"#EXT-X-I-FRAME-STREAM-INF"}
    [] c = "image_playlists" -> {"#EXT-X-IMAGE-STREAM-INF"}
    [] c = "tiles" -> {"#EXT-X-TILES"}
    [] c = "keys" -> {"#EXT-X-KEY"}
    [] c = "session_data" -> {"#EXT-X-SESSION-DATA"}
    [] c = "session_keys" -> {"#EXT-X-SESSION-KEY"}
    [] c = "rendition_reports" -> {"#EXT-X-RENDITION-REPORT"}
    [] c = "segment_map" -> {"#EXT-X-MAP"}

TagAppeared(c) == \E i \in 1..Len(lines) : lines[i].tag \in TagsOf(c)

\* C13 as stated: while the parse runs every collection is in the Document,
\* and in the Document returned (lenient, no hook) every collection is
\* present, and empty when none of its tags appeared.
C13_CollectionsEmptyWithoutTag ==
  /\ pc = "loop" => Collections \subseteq DOMAIN data
  /\ pc = "returned" =>
       \A c \in Collections :
         /\ c \in DOMAIN result[1]
         /\ ~TagAppeared(c) => result[1][c] = <<>>

\* C13 amended: while the parse runs every collection is in the Document,
\* and in the Document returned (lenient, no hook) every collection is
\* present; a collection other than keys is empty when none of its tags
\* appeared, and keys then holds nothing but the None entry that a segment
\* finalized without a key leaves.
C13_CollectionsPresent ==
  /\ pc = "loop" => Collections \subseteq DOMAIN data
  /\ pc = "returned" =>
       \A c \in Collections :
         /\ c \in DOMAIN result[1]
         /\ ~TagAppeared(c) =>
              IF c = "keys" THEN result[1][c] \in {<<>>, <<PyNone>>}
              ELSE result[1][c] = <<>>

\* a Document has been returned with a media entry, an i-frame playlist and a
\* segment, its other collections empty but for the None entry of keys
C13_Witness ==
  /\ pc = "returned"
  /\ lines = <<MediaLine, IFrameLine, ExtinfLine, UriLine>>
  /\ Len(result[1]["media"]) = 1
  /\ Len(result[1]["iframe_playlists"]) = 1
  /\ Len(result[1]["segments"]) = 1
  /\ result[1]["keys"] = <<PyNone>>
  /\ result[1]["tiles"] = <<>>

\* C14: once the Document exists, media_sequence is an integer as long as no
\* EXT-X-STREAM-INF line has been read, and None in every state after one has
\* been read, whatever lines followed it.
C14_MediaSequenceAbsent ==
  pc \in {"loop", "returned"} =>
    IF \E i \in 1..Len(lines) : lines[i].tag = "#EXT-X-STREAM-INF"
    THEN data["media_sequence"] = PyNone
    ELSE Has(data["media_sequence"], "int")

\* C15: without a hook, in no state of the main loop are expect_segment and
\* expect_playlist both true, in the ParseState or in the shadow flags.
C15_FlagsExclusive ==
  (~hook /\ pc = "loop") =>
    /\ ~(FlagOf(state, "expect_segment") /\ FlagOf(state, "expect_playlist"))
    /\ ~(ctx.expect_segment /\ ctx.expect_playlist)

\* C16: a bare line read right after an EXT-X-STREAM-INF line is appended to
\* playlists with its URI and leaves segments as they were, whatever lines
\* came before the tag.
C16_StreamInfThenPlaylist ==
  [][(/\ pc = "loop"
      /\ lines # <<>>
      /\ lines[Len(lines)].tag = "#EXT-X-STREAM-INF"
      /\ \E l \in VariantLines : IsBareLine(l) /\ ReadsLine(l)) =>
       /\ pc' = "loop"
       /\ Len(data'["playlists"]) = Len(data["playlists"]) + 1
       /\ data'["playlists"][Len(data'["playlists"])].dict["uri"] =
            PyStr(strip(lines'[Len(lines')].body))
       /\ data'["segments"] = data["segments"]]_vars

\* the current program date time that each segment finalized by a bare line
\* of ls is due, <<>> standing for none: cur is the running time (<<>> before
\* any EXT-X-PROGRAM-DATE-TIME), dur the duration of the pending segment,
\* open whether an EXTINF is unresolved; withParts says whether the duration
\* of an EXT-X-PART advances the running time
RECURSIVE RefTimes(_, _, _, _, _)
RefTimes(ls, cur, dur, open, withParts) ==
  IF ls = <<>> THEN <<>>
  ELSE LET l == Head(ls)
           rest == Tail(ls)
       IN CASE l \in {DateLine, DateZero} ->
                 RefTimes(rest, <<IF l = DateLine THEN 100 ELSE 0>>, dur, open, withParts)
            [] l \in {ExtinfLine, ExtinfThree} ->
                 RefTimes(rest, cur, IF l = ExtinfLine THEN 5 ELSE 3, TRUE, withParts)
            [] l = PartLine ->
                 RefTimes(rest, IF withParts /\ cur # <<>> THEN <<cur[1] + 2>> ELSE cur, dur, open,
                          withParts)
            [] l = UriLine /\ open ->
                 <<cur>> \o RefTimes(rest, IF cur # <<>> THEN <<cur[1] + dur>> ELSE cur, 0, FALSE,
                                     withParts)
            [] OTHER -> RefTimes(rest, cur, dur, open, withParts)

\* the current program date time carried by the segment seg, <<>> for none
SegmentTime(seg) ==
  IF Has(seg.dict, "current_program_date_time")
  THEN <<seg.dict["current_program_date_time"].dt>> ELSE <<>>

\* the segments finalized by a bare line carry the times due
SegmentTimesAre(times) ==
  pc \in {"loop", "returned"} =>
    /\ Len(data["segments"]) - Len(times) \in {0, 1}
    /\ Len(data["segments"]) > Len(times) => pc = "returned"
    /\ \A i \in 1..Len(times) : SegmentTime(data["segments"][i]) = times[i]

\* C17 as stated: the current program date time of each segment finalized by
\* a bare line is the time of the most recent EXT-X-PROGRAM-DATE-TIME tag
\* plus the durations of the segments finalized since that tag, and none
\* before any such tag.
C17_DateTimeBySegmentsOnly == SegmentTimesAre(RefTimes(lines, <<>>, 0, FALSE, FALSE))

\* C17 amended: the current program date time of each segment finalized by a
\* bare line is the time of the most recent EXT-X-PROGRAM-DATE-TIME tag plus
\* the durations of the segments finalized and of the parts read since that
\* tag, and none before any such tag.
C17_DateTimePropagation == SegmentTimesAre(RefTimes(lines, <<>>, 0, FALSE, TRUE))

\* the example: a tag, a segment of 5 s and a segment of 3 s carry the time of
\* the tag and that time plus 5 s
C17_Witness ==
  /\ pc = "loop"
  /\ lines = <<DateLine, ExtinfLine, UriLine, ExtinfThree, UriLine>>
  /\ SegmentTime(data["segments"][1]) = <<100>>
  /\ SegmentTime(data["segments"][2]) = <<105>>

\* C18: in lenient mode, in both variants, the step that reads an
\* EXT-X-STREAM-INF line whose PROGRAM-ID (an integer attribute) is not a
\* base-10 integer goes on without an error, and the decoded stream
\* information holds program_id with the string as written.
C18_IntegerFallback ==
  [][(~strict /\ pc = "loop" /\ ReadsLine(ProgramIdBad)) =>
       /\ pc' = "loop"
       /\ Has(state'["stream_info"].dict, "program_id")
       /\ state'["stream_info"].dict["program_id"] = PyStr(<<"x">>)]_vars

\* the cue tags read between two finalized segments, one entry for each
\* segment finalized by a bare line of ls: tags are the cue tags read since
\* the segment before, open whether an EXTINF is unresolved
RECURSIVE RefCueTags(_, _, _)
RefCueTags(ls, tags, open) ==
  IF ls = <<>> THEN <<>>
  ELSE LET l == Head(ls)
           rest == Tail(ls)
       IN CASE l.tag \in {"#EXT-X-CUE-OUT", "#EXT-X-CUE-IN", "#EXT-X-CUE-SPAN"} ->
                 RefCueTags(rest, Append(tags, l), open)
            [] l = ExtinfLine -> RefCueTags(rest, tags, TRUE)
            [] l = UriLine /\ open -> <<tags>> \o RefCueTags(rest, <<>>, FALSE)
            [] OTHER -> RefCueTags(rest, tags, open)

\* where an EXT-X-CUE-OUT line writes DURATION=, 0 when it does not
DurationAt(l) ==
  IF l.tag = "#EXT-X-CUE-OUT"
       /\ \E i \in 1..Len(l.body) - 1 : tolower(l.body[i]) = "duration" /\ l.body[i + 1] = "="
  THEN CHOOSE i \in 1..Len(l.body) - 1 : tolower(l.body[i]) = "duration" /\ l.body[i + 1] = "="
  ELSE 0

\* the d of an EXT-X-CUE-OUT line that carries DURATION=d
DurationWritten(l) == SubSeq(l.body, DurationAt(l) + 2, ScanTo(l.body, DurationAt(l), {","}) - 1)

\* the last EXT-X-CUE-OUT tag of tags that carries DURATION=d, 0 for none
LastWithDuration(tags) ==
  IF \E i \in 1..Len(tags) : DurationAt(tags[i]) > 0
  THEN CHOOSE i \in 1..Len(tags) :
         DurationAt(tags[i]) > 0 /\ \A j \in i + 1..Len(tags) : DurationAt(tags[j]) = 0
  ELSE 0

CueFlags(seg) ==
  <<seg.dict["cue_out"], seg.dict["cue_out_start"], seg.dict["cue_out_explicitly_duration"]>>

\* what a segment owes to the cue tags read since the segment before it
CueDue(seg, tags) ==
  /\ LastWithDuration(tags) > 0 =>
       /\ CueFlags(seg) = <<Py_True, Py_True, Py_True>>
       /\ seg.dict["scte35_duration"] = PyStr(DurationWritten(tags[LastWithDuration(tags)]))
  /\ tags = <<>> => CueFlags(seg) = <<Py_False, Py_False, Py_False>>

\* C19: a segment finalized after an EXT-X-CUE-OUT tag that carries
\* DURATION=d has cue_out, cue_out_start and cue_out_explicitly_duration true
\* and scte35_duration equal to the string d, and a segment finalized with no
\* cue tag since the segment before it has the three flags false.
C19_CueOutWithDuration ==
  pc \in {"loop", "returned"} =>
    \A i \in 1..Len(RefCueTags(lines, <<>>, FALSE)) :
      i <= Len(data["segments"]) =>
        CueDue(data["segments"][i], RefCueTags(lines, <<>>, FALSE)[i])

\* the call in progress has ended as the call before it did
SameOutcome == previous[1].err = err /\ previous[1].result = result

\* the call in progress had the arguments of the call before it, and validate
\* gave the same answer
SameArguments ==
  /\ previous # <<>>
  /\ previous[1].strict = strict
  /\ previous[1].lines = lines
  /\ previous[1].rejected = (err = [exc |-> "Exception"])

\* C20: a call of m3u8_parse that has ended, after a call with the same
\* content and strict flag, hands back an equal Document (or the same error),
\* whatever was parsed before; and a call that has read no line yet holds an
\* empty Document and a default ParseState.
C20_Deterministic ==
  /\ (pc \in {"returned", "error"} /\ SameArguments) => SameOutcome
  /\ (pc = "loop" /\ lines = <<>>) => (data = init_parse_data /\ state = init_parse_state)

\* the call in progress is the other build on the content and strict flag of
\* the call before, and validate let both calls through
OtherBuildSameArguments ==
  /\ previous # <<>>
  /\ previous[1].variant # variant
  /\ previous[1].strict = strict
  /\ ~previous[1].rejected
  /\ err # [exc |-> "Exception"]

\* what the call in progress has held so far is what the call before held
\* at the same lines
ObservedAlike ==
  \A i \in 1..Len(observed) :
    i <= Len(previous[1].observed) /\ observed[i] = previous[1].observed[i]

\* C21: on the same content and strict flag, without a hook, the baseline and
\* the optimized parser hold after each non-blank line the same expect_segment
\* and expect_playlist, the same presence of a pending segment and the same
\* numbers of segments and playlists (so each bare line is resolved alike),
\* stop with an error at the same line, and end with the same numbers.
C21_SameStateMachine == OtherBuildSameArguments => ObservedAlike

\* the pending segment of the ParseState, as a dictionary (empty for none)
PendingOf(st) == IF Has(st, "segment") THEN st["segment"].dict ELSE PyDict_New

\* the step sets the field k of the pending segment to val, creating the
\* pending segment when there was none, and leaves its other fields
AttachesToPending(k, val) ==
  /\ pc' = "loop"
  /\ Has(state', "segment")
  /\ PendingOf(state') = PyDict_SetItem(PendingOf(state), k, val)

\* the step finalizes the bare line as a segment that carries what was pending
FinalizedFromPending ==
  /\ pc' = "loop"
  /\ Len(data'["segments"]) = Len(data["segments"]) + 1
  /\ ~Has(state', "segment")
  /\ \A k \in DOMAIN PendingOf(state) :
       data'["segments"][Len(data'["segments"])].dict[k] = PendingOf(state)[k]
  /\ data'["segments"][Len(data'["segments"])].dict["uri"] = PyStr(<<"a">>)

\* the line read before the step is one of ls, and is the first line or
\* follows a bare line that was resolved
DirectlyAfterAlone(ls) ==
  /\ lines # <<>>
  /\ lines[Len(lines)] \in ls
  /\ ~Has(PendingOf(state), "duration")
  /\ \A i \in 1..Len(lines) - 1 : lines[i] \notin {ByterangeLine, ExtinfLine, ExtinfNoComma}

FinalizationFields ==
  {"uri", "cue_in", "cue_out", "cue_out_start", "cue_out_explicitly_duration", "scte35",
   "oatcls_scte35", "scte35_duration", "scte35_elapsedtime", "asset_metadata",
   "discontinuity", "key", "init_section", "dateranges", "gap_tag", "blackout"}

\* the entries of segs up to the n-th have a URI
HaveUri(segs, n) == \A i \in 1..n : Has(segs[i].dict, "uri")

\* C23: the step that ends the input appends a pending segment as the last
\* entry of Document.segments exactly as accumulated, without URI and without
\* a finalization field, and appends nothing when no segment is pending; every
\* entry of Document.segments has a URI except, at the end, the one appended
\* so.
C23_FinalFlush ==
  [][/\ (pc = "loop" /\ pc' = "returned") =>
          /\ result' = <<data'>>
          /\ HaveUri(data["segments"], Len(data["segments"]))
          /\ IF Has(state, "segment")
             THEN /\ data'["segments"] = Append(data["segments"], state["segment"])
                  /\ DOMAIN state["segment"].dict \cap FinalizationFields = {}
             ELSE data'["segments"] = data["segments"]
     /\ pc' = "loop" => HaveUri(data'["segments"], Len(data'["segments"]))]_vars

\* the input ends after EXTINF, a segment, and an EXT-X-BYTERANGE and EXT-X-PART
\* that no bare line follows: the second entry is the pending segment
C23_Witness ==
  /\ pc = "returned"
  /\ lines = <<ExtinfLine, UriLine, ByterangeLine, PartLine>>
  /\ Len(result[1]["segments"]) = 2
  /\ Has(result[1]["segments"][1].dict, "uri")
  /\ DOMAIN result[1]["segments"][2].dict = {"byterange", "parts"}

\* the markers a segment carries when no marker tag came since the one before
NoMarkers ==
  [discontinuity |-> Py_False, cue_in |-> Py_False, gap_tag |-> PyNone, blackout |-> PyNone]

\* the markers due after the line l, m being those due before it
MarkersAfter(m, l) ==
  CASE l = DiscontinuityLine -> [m EXCEPT !.discontinuity = Py_True]
    [] l = CueInLine -> [m EXCEPT !.cue_in = Py_True]
    [] l = GapLine -> [m EXCEPT !.gap_tag = Py_True]
    [] l = BlackoutLine -> [m EXCEPT !.blackout = PyStr(<<"a">>)]
    [] l = BlackoutPlain -> [m EXCEPT !.blackout = Py_True]
    [] OTHER -> m

\* the markers due to each segment finalized by a bare line of ls, and those
\* still unspent after ls: acc.open tells whether an EXTINF is unresolved;
\* partsTakeGap says whether an EXT-X-PART spends the gap marker
RECURSIVE RefMarkers(_, _, _)
RefMarkers(ls, acc, partsTakeGap) ==
  IF ls = <<>> THEN acc
  ELSE LET l == Head(ls)
       IN RefMarkers(Tail(ls),
            CASE l = ExtinfLine -> [acc EXCEPT !.open = TRUE]
              [] l = UriLine /\ acc.open ->
                   [due |-> Append(acc.due, acc.unspent), unspent |-> NoMarkers, open |-> FALSE]
              [] l = PartLine /\ partsTakeGap -> [acc EXCEPT !.unspent.gap_tag = PyNone]
              [] OTHER -> [acc EXCEPT !.unspent = MarkersAfter(acc.unspent, l)],
            partsTakeGap)

RefMarkersOf(ls, partsTakeGap) ==
  RefMarkers(ls, [due |-> <<>>, unspent |-> NoMarkers, open |-> FALSE], partsTakeGap)

\* the four markers as the segment seg carries them
MarkersOn(seg) == [k \in DOMAIN NoMarkers |-> seg.dict[k]]

\* the four markers as the ParseState st holds them
MarkersHeld(st) ==
  [discontinuity |-> PyBool(Has(st, "discontinuity")), cue_in |-> PyBool(Has(st, "cue_in")),
   gap_tag |-> IF Has(st, "gap") THEN Py_True ELSE PyNone,
   blackout |-> IF Has(st, "blackout") THEN st["blackout"] ELSE PyNone]

\* every segment finalized by a bare line carries the markers due to it, and
\* the ParseState holds the unspent ones and no other
MarkersAre(ref) ==
  pc = "loop" =>
    /\ Len(data["segments"]) = Len(ref.due)
    /\ \A i \in 1..Len(ref.due) : MarkersOn(data["segments"][i]) = ref.due[i]
    /\ MarkersHeld(state) = ref.unspent

\* C24 as stated: each of the markers discontinuity, cue-in, gap and blackout
\* set by a tag is carried by the first segment finalized after the tag and
\* is absent from the ParseState right after that segment; a segment with no
\* such tag since the segment before it carries discontinuity and cue_in
\* false, gap and blackout null.
C24_MarkersSpentBySegments == MarkersAre(RefMarkersOf(lines, FALSE))

\* C24 amended: each of the markers discontinuity, cue-in and blackout set by
\* a tag is carried by the first segment finalized after the tag, and the gap
\* marker by the first EXT-X-PART or segment after the tag, whichever comes
\* first; the marker is absent from the ParseState right afterwards; a
\* segment with no such unspent tag since the segment before it carries
\* discontinuity and cue_in false, gap and blackout null.
C24_MarkersSpent == MarkersAre(RefMarkersOf(lines, TRUE))

\* a gap marker, the segment that carries it, and a segment that carries none
C24_Witness ==
  /\ pc = "loop"
  /\ lines = <<GapLine, ExtinfLine, UriLine, ExtinfLine, UriLine>>
  /\ MarkersOn(data["segments"][1]) = [NoMarkers EXCEPT !.gap_tag = Py_True]
  /\ MarkersOn(data["segments"][2]) = NoMarkers
  /\ MarkersHeld(state) = NoMarkers

\* the segment that the step appends to data["segments"]
FinalizedSegment == data'["segments"][Len(data'["segments"])].dict

\* the i-th carry-over field at a finalization: copied or null, and kept in the
\* ParseState, unchanged, exactly when it was held and the segment is a cue-out
CarriedOver(i) ==
  /\ FinalizedSegment[seg_keys[i]] =
       IF Has(state, scte_keys[i]) THEN state[scte_keys[i]] ELSE PyNone
  /\ Has(state', scte_keys[i]) <=>
       (Has(state, scte_keys[i]) /\ FinalizedSegment["cue_out"] = Py_True)
  /\ Has(state', scte_keys[i]) => state'[scte_keys[i]] = state[scte_keys[i]]

\* the tags that set cue-out or one of the carry-over fields
CueAssetTags ==
  {"#EXT-X-CUE-OUT", "#EXT-X-CUE-OUT-CONT", "#EXT-X-CUE-SPAN", "#EXT-OATCLS-SCTE35",
   "#EXT-X-ASSET"}

\* the number of the line that finalized the last segment: observed holds one
\* entry per line read
RECURSIVE LastFinalizedAt(_)
LastFinalizedAt(k) ==
  IF k = 0 THEN 0
  ELSE IF observed[k].segments > (IF k = 1 THEN 0 ELSE observed[k - 1].segments) THEN k
  ELSE LastFinalizedAt(k - 1)

\* the last segment is not a cue-out and no cue or asset tag came after it
AfterPlainSegment ==
  /\ Len(data["segments"]) >= 1
  /\ data["segments"][Len(data["segments"])].dict["cue_out"] = Py_False
  /\ \A k \in (LastFinalizedAt(Len(lines)) + 1)..Len(lines) : lines[k].tag \notin CueAssetTags

\* C25: when a bare line finalizes a segment, each of scte35, oatcls_scte35,
\* scte35_duration, scte35_elapsedtime and asset_metadata is the value the
\* ParseState holds, or null when it holds none, and the value stays in the
\* ParseState exactly when the segment is a cue-out; a segment finalized after
\* a segment that is not a cue-out, with no cue or asset tag in between,
\* carries null in all five.
C25_CarryOver ==
  [][FinalizesSegment =>
       /\ \A i \in 1..5 : CarriedOver(i)
       /\ AfterPlainSegment => \A i \in 1..5 : FinalizedSegment[seg_keys[i]] = PyNone]_vars

\* a cue-out segment and the segment after it: the SCTE-35 value and the
\* duration stay for the second segment, which is not a cue-out, and leave the
\* ParseState with it
C25_Witness ==
  /\ pc = "loop"
  /\ lines = <<CueOutCue, ExtinfLine, UriLine, ExtinfLine, UriLine>>
  /\ data["segments"][1].dict["cue_out"] = Py_True
  /\ data["segments"][1].dict["scte35"] = PyStr(<<"a">>)
  /\ data["segments"][2].dict["cue_out"] = Py_False
  /\ data["segments"][2].dict["scte35"] = PyStr(<<"a">>)
  /\ data["segments"][2].dict["scte35_duration"] = PyStr(<<"3">>)
  /\ data["segments"][2].dict["asset_metadata"] = PyNone
  /\ \A i \in 1..5 : ~Has(state, scte_keys[i])

\* the ParseState st2 is st1 but for the keys of ks
SameBut(st1, st2, ks) ==
  /\ DOMAIN st2 \ ks = DOMAIN st1 \ ks
  /\ \A k \in DOMAIN st1 \ ks : st2[k] = st1[k]

\* C26: a step that reads EXT-OATCLS-SCTE35 with a payload stores the payload
\* as the OATCLS SCTE-35 value whatever was held, stores it as the current
\* cue-out SCTE-35 value only when none is held, and leaves a held one (from
\* an earlier EXT-OATCLS-SCTE35, EXT-X-CUE-OUT CUE= or EXT-X-CUE-OUT-CONT
\* SCTE35=) as it is; nothing else in the ParseState changes.
C26_OatclsSeedsScte35 ==
  [][\A l \in {OatclsLine, OatclsOther} :
       ReadsLine(l) =>
         /\ pc' = "loop"
         /\ state'["current_cue_out_oatcls_scte35"] = PyStr(l.body)
         /\ state'["current_cue_out_scte35"] =
              IF Has(state, "current_cue_out_scte35") THEN state["current_cue_out_scte35"]
              ELSE PyStr(l.body)
         /\ SameBut(state, state',
                    {"current_cue_out_oatcls_scte35", "current_cue_out_scte35"})]_vars

\* a second EXT-OATCLS-SCTE35 replaces the OATCLS value and keeps the SCTE-35
\* value that the first one seeded
C26_Witness ==
  /\ pc = "loop"
  /\ lines = <<OatclsLine, OatclsOther>>
  /\ state["current_cue_out_oatcls_scte35"] = PyStr(<<"p">>)
  /\ state["current_cue_out_scte35"] = PyStr(<<"o">>)

\* the number of the last line with the tag t among the first n of ls, 0 when
\* there is none
RECURSIVE LastTagLine(_, _, _)
LastTagLine(ls, n, t) ==
  IF n = 0 THEN 0 ELSE IF ls[n].tag = t THEN n ELSE LastTagLine(ls, n - 1, t)

LastKeyLine(ls, n) == LastTagLine(ls, n, "#EXT-X-KEY")

\* C27: the segment that a bare line finalizes carries the key record of the
\* last EXT-X-KEY line read before the bare line, whether that line came
\* before or after the segment's EXTINF, and no key when no EXT-X-KEY line was
\* read.
C27_SegmentKey ==
  [][FinalizesSegment =>
       IF LastKeyLine(lines, Len(lines)) = 0 THEN ~Has(FinalizedSegment, "key")
       ELSE /\ Has(FinalizedSegment, "key")
            /\ FinalizedSegment["key"] = ExpectedKey(lines[LastKeyLine(lines, Len(lines))])]_vars

\* a key before EXTINF and another between EXTINF and the URI line: the
\* segment carries the second
C27_Witness ==
  /\ pc = "loop"
  /\ lines = <<KeyQuoted, ExtinfLine, KeyOther, UriLine>>
  /\ data["segments"][1].dict["key"] = ExpectedKey(KeyOther)
  /\ data["segments"][1].dict["key"] # ExpectedKey(KeyQuoted)

\* the record of an EXT-X-MAP line of MapLines
ExpectedMap(l) ==
  CASE l = MapLine -> PyDict([uri |-> PyStr(<<"a">>)])
    [] l = MapOther -> PyDict([uri |-> PyStr(<<"b">>), byterange |-> PyStr(<<"1", "@", "0">>)])
    [] l = MapEmpty -> PyDict(PyDict_New)

LastMapLine(ls) == LastTagLine(ls, Len(ls), "#EXT-X-MAP")

\* C28: a step that reads EXT-X-MAP appends its record to data["segment_map"]
\* and makes it the current segment map; the segment that a bare line
\* finalizes carries as init_section the record of the last EXT-X-MAP line
\* when that record has an attribute, and has no init_section when the record
\* is empty or no EXT-X-MAP line was read; the finalization leaves the current
\* segment map as it is.
C28_InitSection ==
  [][/\ \A l \in {MapLine, MapOther, MapEmpty} :
          ReadsLine(l) =>
            /\ data'["segment_map"] = Append(data["segment_map"], ExpectedMap(l))
            /\ state'["current_segment_map"] = ExpectedMap(l)
     /\ FinalizesSegment =>
          /\ IF LastMapLine(lines) = 0 \/ ExpectedMap(lines[LastMapLine(lines)]) = PyDict(PyDict_New)
             THEN ~Has(FinalizedSegment, "init_section")
             ELSE /\ Has(FinalizedSegment, "init_section")
                  /\ FinalizedSegment["init_section"] = ExpectedMap(lines[LastMapLine(lines)])
          /\ Has(state', "current_segment_map") <=> Has(state, "current_segment_map")
          /\ Has(state, "current_segment_map") =>
               state'["current_segment_map"] = state["current_segment_map"]
          /\ data'["segment_map"] = data["segment_map"]]_vars

\* two segments after one EXT-X-MAP carry its record, and an empty EXT-X-MAP
\* joins the list
C28_Witness ==
  /\ pc = "loop"
  /\ lines = <<MapOther, ExtinfLine, UriLine, ExtinfLine, UriLine>>
  /\ data["segment_map"] = <<ExpectedMap(MapOther)>>
  /\ data["segments"][1].dict["init_section"] = ExpectedMap(MapOther)
  /\ data["segments"][2].dict["init_section"] = ExpectedMap(MapOther)
  /\ state["current_segment_map"] = ExpectedMap(MapOther)

\* the record of an EXT-X-DATERANGE line of RangeLines
ExpectedRange(l) ==
  CASE l = DaterangeLine -> PyDict([id |-> PyStr(<<"a">>)])
    [] l = DaterangeOther -> PyDict([id |-> PyStr(<<"b">>), duration |-> PyFloat(2)])

\* the records of the EXT-X-DATERANGE lines of ls, in their order
RECURSIVE RangesRead(_)
RangesRead(ls) ==
  IF ls = <<>> THEN <<>>
  ELSE (IF Head(ls).tag = "#EXT-X-DATERANGE" THEN <<ExpectedRange(Head(ls))>> ELSE <<>>)
       \o RangesRead(Tail(ls))

\* the daterange records that the part or segment c carries
RangesOn(c) ==
  IF Has(c, "dateranges") /\ Has(c["dateranges"], "list") THEN c["dateranges"].list ELSE <<>>

RECURSIVE RangesOfParts(_)
RangesOfParts(ps) ==
  IF ps = <<>> THEN <<>> ELSE RangesOn(Head(ps).dict) \o RangesOfParts(Tail(ps))

\* the records of the parts of a segment, then those of the segment itself
RangesOfSegment(seg) ==
  RangesOfParts(IF Has(seg, "parts") THEN seg["parts"].list ELSE <<>>) \o RangesOn(seg)

RECURSIVE RangesOfSegments(_)
RangesOfSegments(segs) ==
  IF segs = <<>> THEN <<>>
  ELSE RangesOfSegment(Head(segs).dict) \o RangesOfSegments(Tail(segs))

\* the pending list of the ParseState st
PendingRanges(st) == IF Has(st, "dateranges") THEN st["dateranges"].list ELSE <<>>

\* every record held anywhere: by the segments and their parts, by the pending
\* segment and its parts, and by the pending list
AllRanges(d, st) ==
  RangesOfSegments(d["segments"])
  \o (IF Has(st, "segment") THEN RangesOfSegment(st["segment"].dict) ELSE <<>>)
  \o PendingRanges(st)

\* the step moves the pending list into the part or segment c, or gives it
\* null when there is none
TakesRanges(c) ==
  /\ c["dateranges"] = IF Has(state, "dateranges") THEN state["dateranges"] ELSE PyNone
  /\ ~Has(state', "dateranges")

\* the part that the step appends to the pending segment
AppendedPart ==
  state'["segment"].dict["parts"].list[Len(state'["segment"].dict["parts"].list)].dict

\* C29: a step that reads EXT-X-DATERANGE appends its record to the pending
\* list of the ParseState; a step that reads EXT-X-PART or finalizes a segment
\* gives the part or segment the whole pending list, or null when there is
\* none, and leaves no pending list; the records held by the parts, the
\* segments and the pending list are, in that order, the records of the
\* EXT-X-DATERANGE lines read, each once.
C29_DaterangesMoved ==
  [][/\ \A l \in {DaterangeLine, DaterangeOther} :
          ReadsLine(l) =>
            state'["dateranges"] = PyList(Append(PendingRanges(state), ExpectedRange(l)))
     /\ ReadsLine(PartLine) => TakesRanges(AppendedPart)
     /\ FinalizesSegment => TakesRanges(FinalizedSegment)
     /\ ReadsLine(ExtinfLine) => PendingRanges(state') = PendingRanges(state)
     /\ pc' = "loop" => AllRanges(data', state') = RangesRead(lines')]_vars

\* two dateranges go as one list to the part that follows them, and the
\* segment that closes after the part carries null
C29_Witness ==
  /\ pc = "loop"
  /\ lines = <<DaterangeLine, DaterangeOther, PartLine, ExtinfLine, UriLine>>
  /\ data["segments"][1].dict["parts"].list[1].dict["dateranges"] =
       PyList(<<ExpectedRange(DaterangeLine), ExpectedRange(DaterangeOther)>>)
  /\ data["segments"][1].dict["dateranges"] = PyNone
  /\ ~Has(state, "dateranges")

\* the parts of the pending segment of the ParseState st
PartsHeld(st) ==
  IF Has(st, "segment") /\ Has(st["segment"].dict, "parts")
  THEN st["segment"].dict["parts"].list ELSE <<>>

\* the pending segment of st without its parts
PendingBut(st) ==
  IF Has(st, "segment")
  THEN [k \in DOMAIN st["segment"].dict \ {"parts"} |-> st["segment"].dict[k]] ELSE <<>>

\* the seconds of the duration that the part p carries, 0 when it has none
PartSeconds(p) == IF Has(p, "duration") /\ Has(p["duration"], "flt") THEN p["duration"].flt ELSE 0

RECURSIVE SumSeconds(_)
SumSeconds(ps) == IF ps = <<>> THEN 0 ELSE PartSeconds(Head(ps).dict) + SumSeconds(Tail(ps))

\* the number of the n-th last EXT-X-PART line of ls (n >= 1, ls has n such lines)
RECURSIVE NthLastPartLine(_, _, _)
NthLastPartLine(ls, k, n) ==
  IF ls[k].tag = "#EXT-X-PART"
  THEN IF n = 1 THEN k ELSE NthLastPartLine(ls, k - 1, n - 1)
  ELSE NthLastPartLine(ls, k - 1, n)

\* no EXT-X-PROGRAM-DATE-TIME line was read after the first of the n parts of
\* the pending segment
NoDateSinceParts(n) ==
  \A k \in NthLastPartLine(lines, Len(lines), n)..Len(lines) :
    lines[k].tag # "#EXT-X-PROGRAM-DATE-TIME"

\* the step appends the part decoded from the line l after the parts of the
\* pending segment, gives it the current program date time and advances that
\* time by the part's duration
PartAppended(l) ==
  /\ pc' = "loop"
  /\ Len(PartsHeld(state')) = Len(PartsHeld(state)) + 1
  /\ SubSeq(PartsHeld(state'), 1, Len(PartsHeld(state))) = PartsHeld(state)
  /\ PendingBut(state') = PendingBut(state)
  /\ \A k \in DOMAIN parse_typed_attribute_list(variant, l.body, part_parsers) :
       AppendedPart[k] = parse_typed_attribute_list(variant, l.body, part_parsers)[k]
  /\ IF Has(state, "current_program_date_time")
     THEN /\ AppendedPart["program_date_time"] = state["current_program_date_time"]
          /\ state'["current_program_date_time"] =
               datetime_add_seconds(state["current_program_date_time"],
                                    PartSeconds(AppendedPart))
     ELSE /\ ~Has(AppendedPart, "program_date_time")
          /\ ~Has(state', "current_program_date_time")

\* a segment closed over parts that carry a time, with no new date since the
\* first of them, takes that time plus the durations of its parts
PartsClosed ==
  (/\ FinalizesSegment
   /\ PartsHeld(state) # <<>>
   /\ Has(PartsHeld(state)[1].dict, "program_date_time")
   /\ NoDateSinceParts(Len(PartsHeld(state)))) =>
    /\ FinalizedSegment["parts"].list = PartsHeld(state)
    /\ FinalizedSegment["current_program_date_time"] =
         datetime_add_seconds(PartsHeld(state)[1].dict["program_date_time"],
                              SumSeconds(PartsHeld(state)))

\* C30: a step that reads EXT-X-PART appends the decoded part after the parts
\* of the pending segment, which it creates when there is none and otherwise
\* leaves as it is; the part takes the current program date time, which then
\* advances by the part's duration; the segment that a bare line closes over
\* parts takes the time of its first part plus the durations of its parts.
C30_PartsAppended ==
  [][/\ \A l \in {PartLine, PartThree, PartBadDuration} : ReadsLine(l) => PartAppended(l)
     /\ PartsClosed]_vars

\* the list that the line l of IFrameLines feeds
OwnList(l) == IF l = ImageLine THEN "image_playlists" ELSE "iframe_playlists"

\* the entry that the line l of IFrameLines describes
OwnEntry(l) ==
  IF l = ImageLine
  THEN PyDict([uri |-> PyStr(<<"a">>), image_stream_info |-> PyDict(PyDict_New)])
  ELSE PyDict([uri |-> PyStr(<<"a">>), iframe_stream_info |-> PyDict([bandwidth |-> PyLong(1)])])

\* what the bare line a does to the Document d and the ParseState st under
\* the flags es (expect_segment) and ep (expect_playlist), in lenient mode
BareEffect(d, st, es, ep) ==
  IF es THEN parse_ts_chunk(<<"a">>, d, st)
  ELSE IF ep THEN parse_variant_playlist(<<"a">>, d, st)
  ELSE Done(d, st)

\* the Document d with the value x under the key k
WithItem(d, k, x) == [d EXCEPT ![k] = x]

\* the step that reads l changes nothing but the list of l, which takes the
\* entries es, and the bare line that follows does what it would do without l
SelfContained(l, es) ==
  /\ pc' = "loop"
  /\ data' = WithItem(data, OwnList(l), data[OwnList(l)] \o es)
  /\ state' = state
  /\ ExpectSegment' = ExpectSegment
  /\ ExpectPlaylist' = ExpectPlaylist
  /\ BareEffect(data', state', ExpectSegment', ExpectPlaylist') =
       [BareEffect(data, state, ExpectSegment, ExpectPlaylist)
          EXCEPT !.data = WithItem(@, OwnList(l), data'[OwnList(l)])]

\* C31 as stated: a step that reads EXT-X-I-FRAME-STREAM-INF or
\* EXT-X-IMAGE-STREAM-INF appends one entry, with the URI of its URI
\* attribute and the other attributes as stream info, to its own list, leaves
\* expect_playlist, expect_segment, the pending stream info and is_variant as
\* they are, and the bare line that follows is resolved as if the tag were
\* absent.
C31_SelfContainedAlways ==
  [][\A l \in {IFrameLine, IFrameNoUri, ImageLine} :
       ReadsLine(l) => SelfContained(l, <<OwnEntry(l)>>)]_vars

\* C31 amended: such a step appends the entry when the tag has a URI
\* attribute and appends nothing when it has none; in both cases it leaves
\* expect_playlist, expect_segment, the pending stream info and is_variant as
\* they are, and the bare line that follows is resolved as if the tag were
\* absent.
C31_SelfContained ==
  [][\A l \in {IFrameLine, IFrameNoUri, ImageLine} :
       ReadsLine(l) => SelfContained(l, IF l = IFrameNoUri THEN <<>> ELSE <<OwnEntry(l)>>)]_vars

\* an I-frame tag between EXT-X-STREAM-INF and its URI line: the I-frame entry
\* is there and the bare line became the variant playlist
C31_Witness ==
  /\ pc = "loop"
  /\ lines = <<StreamInfLine, IFrameLine, UriLine>>
  /\ data["iframe_playlists"] = <<OwnEntry(IFrameLine)>>
  /\ Len(data["playlists"]) = 1
  /\ data["playlists"][1].dict["uri"] = PyStr(<<"a">>)
  /\ ~Has(state, "stream_info")

\* the Document field that the scalar tag t sets
ScalarField(t) ==
  CASE t = "#EXT-X-TARGETDURATION" -> "targetduration"
    [] t = "#EXT-X-MEDIA-SEQUENCE" -> "media_sequence"
    [] t = "#EXT-X-DISCONTINUITY-SEQUENCE" -> "discontinuity_sequence"
    [] t = "#EXT-X-VERSION" -> "version"

\* the Document after the scalar line l, whose payload is the body of l
AfterScalar(l, d) ==
  CASE l.body = <<"7">> -> PyDict_SetItem(d, ScalarField(l.tag), PyLong(7))
    [] l.body = <<"1", "2">> -> PyDict_SetItem(d, ScalarField(l.tag), PyLong(12))
    [] OTHER -> d

\* C32: a step that reads EXT-X-TARGETDURATION, EXT-X-MEDIA-SEQUENCE,
\* EXT-X-DISCONTINUITY-SEQUENCE or EXT-X-VERSION sets the field of the
\* Document to the payload when the payload is a base-10 integer and leaves
\* the Document as it is when it is not one, and does not end the parse, in
\* strict and in lenient mode.
C32_ScalarOverwrite ==
  [][\A l \in ScalarLines :
       ReadsLine(l) => pc' = "loop" /\ data' = AfterScalar(l, data) /\ state' = state]_vars

\* the timestamp of a line of StampLines that has one
Stamp(l) == PyDateTime(IF l = DateLine THEN 100 ELSE 0)

\* the number of the first (k counts up from 1) and of the last (n counts down)
\* EXT-X-PROGRAM-DATE-TIME line of ls that has a timestamp, 0 when none
RECURSIVE FirstStampLine(_, _)
FirstStampLine(ls, k) ==
  IF k > Len(ls) THEN 0
  ELSE IF ls[k] \in {DateLine, DateZero} THEN k ELSE FirstStampLine(ls, k + 1)

RECURSIVE LastStampLine(_, _)
LastStampLine(ls, n) ==
  IF n = 0 THEN 0 ELSE IF ls[n] \in {DateLine, DateZero} THEN n ELSE LastStampLine(ls, n - 1)

\* C33: the program date time of the Document is the timestamp of the first
\* EXT-X-PROGRAM-DATE-TIME tag read and no later tag changes it; every such
\* tag makes its timestamp the current program date time of the ParseState;
\* the segment that a bare line finalizes has a program_date_time exactly
\* when such a tag was read since the segment finalized before it, and it is
\* the timestamp of the last such tag.
C33_ProgramDateTime ==
  [][/\ pc' = "loop" =>
          IF FirstStampLine(lines', 1) = 0 THEN ~Has(data', "program_date_time")
          ELSE data'["program_date_time"] = Stamp(lines'[FirstStampLine(lines', 1)])
     /\ \A l \in {DateLine, DateZero} :
          ReadsLine(l) => state'["current_program_date_time"] = Stamp(l)
     /\ FinalizesSegment =>
          IF LastStampLine(lines, Len(lines)) > LastFinalizedAt(Len(lines))
          THEN /\ Has(FinalizedSegment, "program_date_time")
               /\ FinalizedSegment["program_date_time"] =
                    Stamp(lines[LastStampLine(lines, Len(lines))])
          ELSE ~Has(FinalizedSegment, "program_date_time")]_vars

\* two tags before the first segment and none after it: the Document keeps
\* the first timestamp, the segment carries the second, and the ParseState
\* holds no timestamp for the segment that is pending
C33_Witness ==
  /\ pc = "loop"
  /\ lines = <<DateLine, DateZero, ExtinfLine, UriLine, ExtinfLine>>
  /\ data["program_date_time"] = PyDateTime(100)
  /\ data["segments"][1].dict["program_date_time"] = PyDateTime(0)
  /\ state["current_program_date_time"] = PyDateTime(5)
  /\ ~Has(state, "program_date_time")

\* the stream info decoded from a line of PlaylistLines
ExpectedInfo(l) == PyDict([bandwidth |-> PyLong(IF l = StreamInfLine THEN 1 ELSE 2)])

\* the step reads a bare line while a playlist URI and no segment URI is due
ResolvesPlaylist == ReadsLine(UriLine) /\ ExpectPlaylist /\ ~ExpectSegment

\* C34: a step that reads a bare line while expect_playlist is true and
\* expect_segment is false appends one playlist, made of the line and of the
\* stream info of the last EXT-X-STREAM-INF tag, takes the stream info out of
\* the ParseState and clears expect_playlist; no other step changes the
\* playlists.
C34_PlaylistPerBareLine ==
  [][pc = "loop" =>
       IF ResolvesPlaylist
       THEN /\ pc' = "loop"
            /\ data'["playlists"] =
                 Append(data["playlists"],
                        PyDict([uri |-> PyStr(<<"a">>),
                                stream_info |->
                                  ExpectedInfo(lines[LastTagLine(lines, Len(lines),
                                                                 "#EXT-X-STREAM-INF")])]))
            /\ ~Has(state', "stream_info")
            /\ ~ExpectPlaylist'
       ELSE pc' = "loop" => data'["playlists"] = data["playlists"]]_vars

\* two EXT-X-STREAM-INF tags and two bare lines: one playlist, with the stream
\* info of the second tag
C34_Witness ==
  /\ pc = "loop"
  /\ lines = <<StreamInfLine, StreamInfOther, UriLine, UriLine>>
  /\ data["playlists"] =
       <<PyDict([uri |-> PyStr(<<"a">>), stream_info |-> ExpectedInfo(StreamInfOther)])>>
  /\ ~ExpectPlaylist

\* the stripped text of the line that begins at start in the content s
LineTextAt(s, start) == strip(SubSeq(s, start, ScanTo(s, start, {"LF", "CR"}) - 1))

\* the lines the walk has handed on, in order
RECURSIVE HandedLines(_, _)
HandedLines(s, tr) ==
  IF tr = <<>> THEN <<>>
  ELSE <<LineTextAt(s, Head(tr).start)>> \o HandedLines(s, Tail(tr))

\* the lines of the line list that are not empty once stripped
RECURSIVE StrippedLines(_)
StrippedLines(ls) ==
  IF ls = <<>> THEN <<>>
  ELSE (IF strip(Head(ls)) = <<>> THEN <<>> ELSE <<strip(Head(ls))>>)
       \o StrippedLines(Tail(ls))

\* C35: every iteration of an attribute tokenizer's loop consumes at least
\* one character of the fragment and stays within it, so the loop ends
\* after at most as many iterations as the fragment has characters; the
\* tokenizer then returns a dict, the one of its definition, and raises
\* nothing, also for an unterminated quote, an empty name, consecutive or
\* trailing commas and a bare value. Every iteration of the main line loop
\* moves past at least one character of the input, and when the loop ends
\* the non-empty stripped lines it handed on are those of the line list,
\* each one once and in order.
C35_TokenizerTerminates ==
  [][/\ (pc = "tokens" /\ tok' # tok)
        => /\ tok'.p > tok.p
           /\ tok'.p <= Len(tok.s) + 1
           /\ tok'.steps <= Len(tok.s)
     /\ (pc = "tokens" /\ pc' # "tokens")
        => /\ pc' = "returned"
           /\ err' = NoError
           /\ result' = <<Tokenize(tok.kind, tok.s, 1, PyDict_New)>>
     /\ (pc = "loop" /\ pc' = "loop") => saveptr' > saveptr
     /\ (pc = "loop" /\ pc' # "loop")
        => /\ pc' = "returned"
           /\ HandedLines(input, trace') = StrippedLines(RefLines(input))]_vars

\* the optimized tokenizer has returned from a fragment made of a leading
\* comma, an empty name and an unterminated quote: one iteration read it to
\* its end, the value running to the end of the fragment
C35_Witness ==
  /\ pc = "returned"
  /\ tok # NoTok
  /\ tok.kind = "parse_attribute_list_raw"
  /\ tok.s = <<",", "=", DQ, "URI", ",">>
  /\ tok.steps = 1
  /\ result = <<[x \in {""} |-> PyStr(<<DQ, "URI", ",">>)]>>

\* C36: once expect_segment is set, no tag line and no blank line clears it:
\* the only step after which it is no longer set reads a bare line and
\* appends a segment to Document.segments, and a bare line read while it is
\* set, if the parse goes on, does append a segment and clear it. Likewise
\* expect_playlist is cleared only by a step that reads a bare line while
\* expect_segment is not set and appends a playlist to Document.playlists,
\* and such a bare line does so.
C36_ExpectFlagsPersist ==
  [][/\ (ExpectSegment /\ ~ExpectSegment')
        => /\ \E l \in FlagLines : IsBareLine(l) /\ ReadsLine(l)
           /\ FinalizesSegment
     /\ (ExpectSegment /\ pc' = "loop" /\ \E l \in FlagLines : IsBareLine(l) /\ ReadsLine(l))
        => /\ ~ExpectSegment'
           /\ FinalizesSegment
     /\ (ExpectPlaylist /\ ~ExpectPlaylist')
        => /\ \E l \in FlagLines : IsBareLine(l) /\ ReadsLine(l)
           /\ ~ExpectSegment
           /\ Len(data'["playlists"]) = Len(data["playlists"]) + 1
     /\ (ExpectPlaylist /\ ~ExpectSegment /\ pc' = "loop"
         /\ \E l \in FlagLines : IsBareLine(l) /\ ReadsLine(l))
        => /\ ~ExpectPlaylist'
           /\ Len(data'["playlists"]) = Len(data["playlists"]) + 1]_vars

\* EXTINF set expect_segment, then a key tag, an unknown tag and a blank
\* line were read in lenient mode, and the flag is still set
C36_Witness ==
  /\ lines = <<ExtinfLine, KeyQuoted, UnknownTagLine, EmptyLine>>
  /\ pc = "loop"
  /\ ExpectSegment
  /\ data["segments"] = <<>>

\* C37: whenever expect_segment is set a pending segment is held in the
\* ParseState, so a bare line that is finalized as a segment always finds
\* one, and the segment it appends to Document.segments carries a duration
\* and a title (from EXTINF) or a byterange (from EXT-X-BYTERANGE).
C37_PendingSegmentHeld ==
  [][/\ ExpectSegment => Has(state, "segment")
     /\ ExpectSegment' => Has(state', "segment")
     /\ (pc = "loop" /\ FinalizesSegment /\ \E l \in CoreLines : IsBareLine(l) /\ ReadsLine(l))
        => /\ ExpectSegment
           /\ Has(state, "segment")
           /\ \/ {"duration", "title"} \subseteq
                   DOMAIN data'["segments"][Len(data'["segments"])].dict
              \/ "byterange" \in DOMAIN data'["segments"][Len(data'["segments"])].dict]_vars

\* a segment announced by EXT-X-BYTERANGE alone, after an EXT-X-BITRATE tag
\* created the pending segment, has been finalized by a bare line: it has a
\* byterange and no duration
C37_Witness ==
  /\ lines = <<BitrateLine, ByterangeLine, UriLine>>
  /\ pc = "loop"
  /\ Len(data["segments"]) = 1
  /\ "byterange" \in DOMAIN data["segments"][1].dict
  /\ "duration" \notin DOMAIN data["segments"][1].dict
  /\ ~ExpectSegment

\* the tags that make the next segment a cue-out
CueOutTags == {"#EXT-X-CUE-OUT", "#EXT-X-CUE-OUT-CONT", "#EXT-X-CUE-SPAN"}

\* C38: a segment finalized by a bare line has cue_out_explicitly_duration
\* only with cue_out_start, and cue_out_start only with cue_out; and its
\* cue_out is true exactly when an EXT-X-CUE-OUT, EXT-X-CUE-OUT-CONT or
\* EXT-X-CUE-SPAN tag was read after the line that finalized the previous
\* segment.
C38_CueFlags ==
  [][FinalizesSegment =>
       /\ FinalizedSegment["cue_out_explicitly_duration"] = Py_True
            => FinalizedSegment["cue_out_start"] = Py_True
       /\ FinalizedSegment["cue_out_start"] = Py_True
            => FinalizedSegment["cue_out"] = Py_True
       /\ FinalizedSegment["cue_out"] \in {Py_True, Py_False}
       /\ FinalizedSegment["cue_out"] = Py_True
            <=> \E k \in (LastFinalizedAt(Len(lines)) + 1)..Len(lines) :
                  lines[k].tag \in CueOutTags]_vars

\* two segments: the first follows EXT-X-CUE-OUT with a DURATION and has the
\* three flags, the second follows no cue tag and has none of them
C38_Witness ==
  /\ pc = "loop"
  /\ lines = <<CueOutLine, ExtinfLine, UriLine, ExtinfLine, UriLine>>
  /\ Len(data["segments"]) = 2
  /\ data["segments"][1].dict["cue_out_explicitly_duration"] = Py_True
  /\ data["segments"][1].dict["cue_out_start"] = Py_True
  /\ data["segments"][1].dict["cue_out"] = Py_True
  /\ data["segments"][2].dict["cue_out"] = Py_False
  /\ data["segments"][2].dict["cue_out_start"] = Py_False

\* every key carried by a segment of the Document d, and the current key of
\* the ParseState st when there is one, equals an entry of d["keys"]
KeysCover(d, st) ==
  /\ \A i \in 1..Len(d["segments"]) :
       Has(d["segments"][i].dict, "key")
         => \E j \in 1..Len(d["keys"]) : d["keys"][j] = d["segments"][i].dict["key"]
  /\ Has(st, "current_key")
       => \E j \in 1..Len(d["keys"]) : d["keys"][j] = st["current_key"]

\* what the ParseState holds as current key, if anything
CurrentKey(st) == IF Has(st, "current_key") THEN <<st["current_key"]>> ELSE <<>>

\* C39: in every state the key of every segment of Document.segments and the
\* current key of the ParseState are structurally equal to an entry of
\* Document.keys; a step that reads an EXT-X-SESSION-KEY tag changes neither
\* Document.keys nor the current key, and appends to Document.session_keys.
C39_KeysCoverSegments ==
  [][/\ KeysCover(data, state)
     /\ KeysCover(data', state')
     /\ ReadsLine(SessionKeyLine)
          => /\ data'["keys"] = data["keys"]
             /\ CurrentKey(state') = CurrentKey(state)
             /\ Len(data'["session_keys"]) = Len(data["session_keys"]) + 1]_vars

\* a segment encrypted with a key, then a session key of other attributes:
\* keys holds the one key, which the segment carries and which is still the
\* current key, and the session key is in session_keys only
C39_Witness ==
  /\ pc = "loop"
  /\ lines = <<KeyQuoted, ExtinfLine, UriLine, SessionKeyLine>>
  /\ Len(data["keys"]) = 1
  /\ Len(data["session_keys"]) = 1
  /\ data["segments"][1].dict["key"] = data["keys"][1]
  /\ state["current_key"] = data["keys"][1]
  /\ data["session_keys"][1] # data["keys"][1]

\* the step has the outcome r of a handler: the parse goes on with the
\* Document and ParseState of r, or ends with its exception
HasOutcome(r) ==
  IF r.rc = 0 THEN pc' = "loop" /\ data' = r.data /\ state' = r.state
  ELSE pc' = "error" /\ err' = r.exc

\* C40: a step that reads one of the fixed-offset tags as the tag name alone
\* has the outcome of the handler on an empty payload, so that nothing
\* outside the line has a part in it.
C40_TagAloneIsEmptyPayload ==
  [][\A l \in FixedOffsetLines :
       (ReadsLine(l) /\ IsTagLine(l) /\ ~l.colon)
         => HasOutcome(Dispatch(variant, l, <<>>, data, state, lineno', strict))]_vars
====
